---- MODULE Spec2Model ----
(***************************************************************************)
(* Duplicate detection, hash cache and resolution policy of the file       *)
(* organizer (src/src/file_organizer): DuplicateResolver, DuplicateDetector,*)
(* HashCache and the Stage3 orchestrator.                                  *)
(***************************************************************************)
EXTENDS Integers, Sequences, FiniteSets, TLC

(***************************************************************************)
(* Bounds of the model                                                     *)
(***************************************************************************)
\* longest path given to the resolver, counted in components below the root
MaxDepth == 3
\* largest duplicate group given to the resolver
MaxGroup == 3
\* modification times are 1..MaxMtime
MaxMtime == 2
\* Stage3 runs (run_stage3a or run_stage3b) and changes made to the files
\* between them, in one behaviour
MaxSteps == 3
MaxRows == 2

(***************************************************************************)
(* Paths as pathlib sees them: a sequence of parts, the first being the    *)
(* root "/", every part a sequence of characters.                          *)
(***************************************************************************)
RootPart == <<"/">>
\* component names: one holding the keyword in mixed case inside a longer
\* name, one without the keyword whose end and start would spell it
NameKeep == <<"K", "e", "E", "p", "s">>
NamePlain == <<"e", "p", "k", "e">>
Names == {NameKeep, NamePlain}

RECURSIVE SeqsUpTo(_, _)
\* all sequences over S of length 1..n
SeqsUpTo(S, n) ==
  IF n = 0 THEN {}
  ELSE LET shorter == SeqsUpTo(S, n - 1)
       IN  {<<x>> : x \in S} \cup shorter
             \cup {Append(s, x) : s \in shorter, x \in S}

\* the absolute paths the resolver is tried on
ResolverPaths == {<<RootPart>> \o rel : rel \in SeqsUpTo(Names, MaxDepth)}

\* str.lower() on one character
LowerChar(c) ==
  CASE c = "K" -> "k"
    [] c = "E" -> "e"
    [] c = "P" -> "p"
    [] OTHER -> c

\* str.lower() on a string
Lower(s) == [i \in 1..Len(s) |-> LowerChar(s[i])]

RECURSIVE JoinParts(_)
\* str(Path): the root, then the components separated by "/"
JoinParts(parts) ==
  IF Len(parts) = 1 THEN parts[1]
  ELSE IF Len(parts) = 2 THEN parts[1] \o parts[2]
  ELSE JoinParts(SubSeq(parts, 1, Len(parts) - 1)) \o <<"/">> \o parts[Len(parts)]

\* the python  pat in s  on strings
Contains(s, pat) ==
  \E i \in 1..(Len(s) - Len(pat) + 1) : SubSeq(s, i, i + Len(pat) - 1) = pat

KEEP == <<"k", "e", "e", "p">>

\* keep_ancestor_depth = None
NoneDepth == 0

\* result of a failed stat()
NoFile == [size |-> 0, mtime |-> 0, exists |-> FALSE]

(***************************************************************************)
(* DuplicateResolver                                                       *)
(***************************************************************************)
\* parent_parts of a path
ParentParts(parts) == SubSeq(parts, 1, Len(parts) - 1)

\* indexes (1-based here, i + 1 in the source) of the ancestors holding "keep"
KeepAncestors(parts) ==
  {j \in 1..Len(ParentParts(parts)) : Contains(Lower(ParentParts(parts)[j]), KEEP)}

\* the elements of a sequence
Range(s) == {s[i] : i \in 1..Len(s)}

Min(S) == CHOOSE x \in S : \A y \in S : x <= y
Max(S) == CHOOSE x \in S : \A y \in S : x >= y

\* analyze_file with the keyword test made case-sensitive (no .lower())
AnalyzeFile_caseSensitive(file_path, parts, st) ==
  LET has_keep == Contains(JoinParts(parts), KEEP)
      anc == IF has_keep
             THEN {j \in 1..Len(ParentParts(parts)) : Contains(ParentParts(parts)[j], KEEP)}
             ELSE {}
  IN  [path |-> file_path,
       size |-> IF st.exists THEN st.size ELSE 0,
       mtime |-> IF st.exists THEN st.mtime ELSE 0,
       depth |-> Len(parts),
       has_keep |-> has_keep,
       keep_in_folder |-> anc # {},
       keep_ancestor_depth |-> IF anc # {} THEN Min(anc) ELSE NoneDepth]

\* analyze_file without the break of line 92: the last "keep" ancestor wins
AnalyzeFile_lastAncestor(file_path, parts, st) ==
  LET has_keep == Contains(Lower(JoinParts(parts)), KEEP)
      anc == IF has_keep THEN KeepAncestors(parts) ELSE {}
  IN  [path |-> file_path,
       size |-> IF st.exists THEN st.size ELSE 0,
       mtime |-> IF st.exists THEN st.mtime ELSE 0,
       depth |-> Len(parts),
       has_keep |-> has_keep,
       keep_in_folder |-> anc # {},
       keep_ancestor_depth |-> IF anc # {} THEN Max(anc) ELSE NoneDepth]

\* analyze_file: parts is Path(file_path).parts, st the stat() result of the
\* path, NoFile when stat fails
AnalyzeFile(file_path, parts, st) ==
  LET has_keep == Contains(Lower(JoinParts(parts)), KEEP)
      anc == IF has_keep THEN KeepAncestors(parts) ELSE {}
  IN  [path |-> file_path,
       size |-> IF st.exists THEN st.size ELSE 0,
       mtime |-> IF st.exists THEN st.mtime ELSE 0,
       depth |-> Len(parts),
       has_keep |-> has_keep,
       keep_in_folder |-> anc # {},
       keep_ancestor_depth |-> IF anc # {} THEN Min(anc) ELSE NoneDepth]

\* compare_files without Rule 1 (folder beats file name) of lines 126-130
CompareFiles_noFolderRule(file1, file2) ==
  IF file1.has_keep /\ ~file2.has_keep THEN -1
  ELSE IF file2.has_keep /\ ~file1.has_keep THEN 1
  ELSE IF file1.has_keep /\ file2.has_keep
          /\ file1.keep_in_folder /\ file2.keep_in_folder
          /\ file1.keep_ancestor_depth < file2.keep_ancestor_depth THEN -1
  ELSE IF file1.has_keep /\ file2.has_keep
          /\ file1.keep_in_folder /\ file2.keep_in_folder
          /\ file2.keep_ancestor_depth < file1.keep_ancestor_depth THEN 1
  ELSE IF file1.depth > file2.depth THEN -1
  ELSE IF file2.depth > file1.depth THEN 1
  ELSE IF file1.mtime > file2.mtime THEN -1
  ELSE IF file2.mtime > file1.mtime THEN 1
  ELSE 0

\* compare_files with the depth test of lines 143-146 reversed
CompareFiles_shallowFirst(file1, file2) ==
  IF file1.has_keep /\ ~file2.has_keep THEN -1
  ELSE IF file2.has_keep /\ ~file1.has_keep THEN 1
  ELSE IF file1.has_keep /\ file2.has_keep
          /\ file1.keep_in_folder /\ ~file2.keep_in_folder THEN -1
  ELSE IF file1.has_keep /\ file2.has_keep
          /\ file2.keep_in_folder /\ ~file1.keep_in_folder THEN 1
  ELSE IF file1.has_keep /\ file2.has_keep
          /\ file1.keep_in_folder /\ file2.keep_in_folder
          /\ file1.keep_ancestor_depth < file2.keep_ancestor_depth THEN -1
  ELSE IF file1.has_keep /\ file2.has_keep
          /\ file1.keep_in_folder /\ file2.keep_in_folder
          /\ file2.keep_ancestor_depth < file1.keep_ancestor_depth THEN 1
  ELSE IF file1.depth < file2.depth THEN -1
  ELSE IF file2.depth < file1.depth THEN 1
  ELSE IF file1.mtime > file2.mtime THEN -1
  ELSE IF file2.mtime > file1.mtime THEN 1
  ELSE 0

\* compare_files: -1 keeps file1, 1 keeps file2, 0 equal priority
CompareFiles(file1, file2) ==
  IF file1.has_keep /\ ~file2.has_keep THEN -1
  ELSE IF file2.has_keep /\ ~file1.has_keep THEN 1
  ELSE IF file1.has_keep /\ file2.has_keep
          /\ file1.keep_in_folder /\ ~file2.keep_in_folder THEN -1
  ELSE IF file1.has_keep /\ file2.has_keep
          /\ file2.keep_in_folder /\ ~file1.keep_in_folder THEN 1
  ELSE IF file1.has_keep /\ file2.has_keep
          /\ file1.keep_in_folder /\ file2.keep_in_folder
          /\ file1.keep_ancestor_depth < file2.keep_ancestor_depth THEN -1
  ELSE IF file1.has_keep /\ file2.has_keep
          /\ file1.keep_in_folder /\ file2.keep_in_folder
          /\ file2.keep_ancestor_depth < file1.keep_ancestor_depth THEN 1
  ELSE IF file1.depth > file2.depth THEN -1
  ELSE IF file2.depth > file1.depth THEN 1
  ELSE IF file1.mtime > file2.mtime THEN -1
  ELSE IF file2.mtime > file1.mtime THEN 1
  ELSE 0

RECURSIVE BestFile_lastOnTie(_, _, _)
\* the loop replacing best_file also on equal priority (>= 0 for > 0)
BestFile_lastOnTie(best, infos, i) ==
  IF i > Len(infos) THEN best
  ELSE BestFile_lastOnTie(IF CompareFiles(best, infos[i]) >= 0 THEN infos[i] ELSE best,
                          infos, i + 1)

RECURSIVE BestFile_againstFirst(_, _, _)
\* the loop comparing every member with file_infos[0] instead of best_file
BestFile_againstFirst(best, infos, i) ==
  IF i > Len(infos) THEN best
  ELSE BestFile_againstFirst(IF CompareFiles(infos[1], infos[i]) > 0 THEN infos[i] ELSE best,
                             infos, i + 1)

RECURSIVE BestFile(_, _, _)
\* the loop of resolve_duplicates over file_infos[1:], best being best_file
BestFile(best, infos, i) ==
  IF i > Len(infos) THEN best
  ELSE BestFile(IF CompareFiles(best, infos[i]) > 0 THEN infos[i] ELSE best,
                infos, i + 1)

\* the delete list built against the first member instead of best_file
SelectPaths_first(infos, bestPath) ==
  LET F[i \in 0..Len(infos)] ==
        IF i = 0 THEN <<>>
        ELSE IF infos[i].path # infos[1].path THEN Append(F[i - 1], infos[i].path)
        ELSE F[i - 1]
  IN  F[Len(infos)]

\* files_to_delete of lines 187-190: the paths other than best_file's, in order
SelectPaths(infos, bestPath) ==
  LET F[i \in 0..Len(infos)] ==
        IF i = 0 THEN <<>>
        ELSE IF infos[i].path # bestPath THEN Append(F[i - 1], infos[i].path)
        ELSE F[i - 1]
  IN  F[Len(infos)]

\* resolve_duplicates on the analysed members: [keep, delete]; keep is
\* NoPath for an empty list
NoPath == <<>>

ResolveInfos(infos) ==
  IF Len(infos) = 0 THEN [keep |-> NoPath, delete |-> <<>>]
  ELSE IF Len(infos) = 1 THEN [keep |-> infos[1].path, delete |-> <<>>]
  ELSE LET best_file == BestFile(infos[1], infos, 2)
       IN  [keep |-> best_file.path,
            delete |-> SelectPaths(infos, best_file.path)]

(***************************************************************************)
(* The file system and the store seen by DuplicateDetector and Stage3      *)
(***************************************************************************)
\* the two trees of a Stage3 session
InputFolder == "/in"
OutputFolder == "/out"
\* a directory inside the input tree, given as input_folder by some runs
InnerFolder == "/in/KeEps"
\* the directories given as input_folder together with the output folder
\* (validate_folder_paths: neither the output folder nor one inside it)
InputFolders == {InputFolder, InnerFolder}
\* the directories given to runs; Phase A takes no output folder, and any of
\* them as input_folder
Roots == {InputFolder, InnerFolder, OutputFolder}

\* the files that can exist on disk; the third carries an image extension
FsPaths == {"/in/a", "/in/KeEps/a", "/in/b.png", "/out/a"}

\* Path(p).parts of the directories and files above
Parts(p) ==
  CASE p = "/in" -> <<RootPart, <<"i", "n">>>>
    [] p = "/out" -> <<RootPart, <<"o", "u", "t">>>>
    [] p = "/in/KeEps" -> <<RootPart, <<"i", "n">>, NameKeep>>
    [] p = "/in/a" -> <<RootPart, <<"i", "n">>, <<"a">>>>
    [] p = "/in/KeEps/a" -> <<RootPart, <<"i", "n">>, NameKeep, <<"a">>>>
    [] p = "/in/b.png" -> <<RootPart, <<"i", "n">>, <<"b", ".", "p", "n", "g">>>>
    [] p = "/out/a" -> <<RootPart, <<"o", "u", "t">>, <<"a">>>>

\* path lies in the tree below root
IsUnder(path, root) ==
  /\ Len(Parts(path)) > Len(Parts(root))
  /\ SubSeq(Parts(path), 1, Len(Parts(root))) = Parts(root)

\* file_path.suffix.lower(): the final name from its last dot on, "" without
Suffix(path) ==
  LET name == Parts(path)[Len(Parts(path))]
      dots == {i \in 2..Len(name) : name[i] = "."}
  IN  IF dots = {} THEN <<>> ELSE Lower(SubSeq(name, Max(dots), Len(name)))

IMAGE_EXTENSIONS == {<<".", "p", "n", "g">>, <<".", "j", "p", "g">>}

\* sizes are counted in KiB: every size constant of the program is a
\* multiple of 1024 bytes
MiB == 1024
GiB == 1048576

\* smallest size processed (10 * 1024 bytes)
MIN_FILE_SIZE == 10

\* file_sampler.py, lines 15-17: 20 MiB, 10 MiB, 10 MiB
DEFAULT_THRESHOLD == 20480
DEFAULT_HEAD_SIZE == 10240
DEFAULT_TAIL_SIZE == 10240

\* file contents: 1 and 2 have the same size, 3 is as large as the sampling
\* threshold, 4 is too small
Contents == 1..4
SizeOf(c) ==
  CASE c = 1 -> MIN_FILE_SIZE [] c = 2 -> MIN_FILE_SIZE [] c = 3 -> DEFAULT_THRESHOLD
    [] OTHER -> 0
\* xxh64 of the whole content: distinct contents, distinct digests
HashOf(c) == c

\* file_hash = None, and the "" that compute_file_hash returns on error
NullHash == 0

\* a path with no file
Absent == [exists |-> FALSE, content |-> 0, mtime |-> 0, readable |-> FALSE]
\* sample_size = None
NoneSize == 0

\* a (path, folder) key with no row
NoRec == [present |-> FALSE, file_size |-> 0, file_mtime |-> 0,
          file_hash |-> NullHash, hash_type |-> "None", sample_size |-> NoneSize]

Labels == {"input", "output"}

\* Path.stat()
Stat(disk, p) ==
  IF disk[p].exists
  THEN [size |-> SizeOf(disk[p].content), mtime |-> disk[p].mtime, exists |-> TRUE]
  ELSE NoFile

\* the paths in lexicographic order
SortedPaths == <<"/in/KeEps/a", "/in/a", "/in/b.png", "/out/a">>

\* the members of S in lexicographic order
Ascending(S) ==
  LET F[i \in 0..Len(SortedPaths)] ==
        IF i = 0 THEN <<>>
        ELSE IF SortedPaths[i] \in S THEN Append(F[i - 1], SortedPaths[i]) ELSE F[i - 1]
  IN  F[Len(SortedPaths)]

Reverse(s) == [i \in 1..Len(s) |-> s[Len(s) + 1 - i]]

\* the orders in which a directory walk or a SELECT without ORDER BY may
\* enumerate S: here the lexicographic order and its reverse
Orders(S) == {Ascending(S), Reverse(Ascending(S))}

(***************************************************************************)
(* HashCache                                                               *)
(***************************************************************************)
\* get_from_cache
GetFromCache(store, file_path, folder) == store[<<file_path, folder>>]

\* a save that empties the table before it inserts its row
SaveToCache_onlyRow(store, file_path, folder, file_size, file_mtime, file_hash, hash_type) ==
  [k \in DOMAIN store |->
     IF k = <<file_path, folder>>
     THEN [present |-> TRUE, file_size |-> file_size, file_mtime |-> file_mtime,
           file_hash |-> file_hash, hash_type |-> hash_type, sample_size |-> NoneSize]
     ELSE NoRec]

\* save_to_cache: INSERT OR REPLACE of the whole row; no caller passes
\* sample_size, which keeps its default None
SaveToCache(store, file_path, folder, file_size, file_mtime, file_hash, hash_type) ==
  [store EXCEPT ![<<file_path, folder>>] =
     [present |-> TRUE, file_size |-> file_size, file_mtime |-> file_mtime,
      file_hash |-> file_hash, hash_type |-> hash_type, sample_size |-> NoneSize]]

\* clear_cache: DELETE FROM file_cache
DeleteAllRows(store) == [k \in DOMAIN store |-> NoRec]

\* get_all_files: the paths having a row under the label
AllFiles(store, folder) == {p \in FsPaths : store[<<p, folder>>].present}

\* BATCH_SIZE of get_files_by_paths
BATCH_SIZE == 999

\* the limit in the comment of line 473: 'SQLite supports up to 999
\* parameters'
NamedParameterLimit == 999

\* SQLITE_MAX_VARIABLE_NUMBER of the SQLite library the interpreter is linked
\* with: 999 up to SQLite 3.31 (the limit the comment of lines 471-472
\* names), 32766 from SQLite 3.32
VariableLimits == {999, 32766}

\* the rows a SELECT ... WHERE folder = ? AND file_path IN (...) returns, as
\* the entries they add to result_dict
SelectBatch(store, batch_paths, folder) ==
  LET found == {p \in Range(batch_paths) : store[<<p, folder>>].present}
  IN  [p \in found |-> store[<<p, folder>>]]

\* result_dict after the entries of one batch were stored into it
UpdateDict(result_dict, rows) ==
  [p \in (DOMAIN result_dict) \cup (DOMAIN rows) |->
     IF p \in DOMAIN rows THEN rows[p] ELSE result_dict[p]]

RECURSIVE BatchLoop(_, _, _, _, _, _)
\* the loop of lines 476-504 from offset i: cursor.execute binds the folder
\* and every path of the batch, and raises sqlite3.OperationalError ("too
\* many SQL variables") when these are more than the library's limit;
\* statements holds the numbers of parameters of the statements executed
BatchLoop(store, file_paths, folder, max_variables, i, result_dict) ==
  IF i >= Len(file_paths)
  THEN [raised |-> FALSE, result |-> result_dict, statements |-> {}]
  ELSE LET last == IF i + BATCH_SIZE < Len(file_paths) THEN i + BATCH_SIZE
                   ELSE Len(file_paths)
           batch_paths == SubSeq(file_paths, i + 1, last)
       IN  IF 1 + Len(batch_paths) > max_variables
           THEN [raised |-> TRUE, result |-> <<>>,
                 statements |-> {1 + Len(batch_paths)}]
           ELSE [BatchLoop(store, file_paths, folder, max_variables, i + BATCH_SIZE,
                           UpdateDict(result_dict,
                                      SelectBatch(store, batch_paths, folder)))
                   EXCEPT !.statements = @ \cup {1 + Len(batch_paths)}]

\* get_files_by_paths: the dictionary returned, or the exception raised
GetFilesByPaths(store, file_paths, folder, max_variables) ==
  IF file_paths = <<>> THEN [raised |-> FALSE, result |-> <<>>, statements |-> {}]
  ELSE BatchLoop(store, file_paths, folder, max_variables, 0, <<>>)

(***************************************************************************)
(* FileSampler                                                             *)
(***************************************************************************)
\* FileSampler() with the default arguments
DefaultSampler ==
  [threshold |-> DEFAULT_THRESHOLD, head_size |-> DEFAULT_HEAD_SIZE,
   tail_size |-> DEFAULT_TAIL_SIZE, adaptive |-> TRUE]

\* should_sample
ShouldSample(self, file_size) == file_size >= self.threshold

\* get_sample_sizes with the 1 GiB and 5 GiB limits taken inclusive
GetSampleSizes_inclusive(self, file_size) ==
  IF ~self.adaptive \/ file_size < self.threshold
  THEN <<self.head_size, self.tail_size>>
  ELSE IF file_size <= 1 * GiB THEN <<self.head_size, self.tail_size>>
  ELSE IF file_size <= 5 * GiB THEN <<20 * MiB, 20 * MiB>>
  ELSE <<50 * MiB, 50 * MiB>>

\* get_sample_sizes
GetSampleSizes(self, file_size) ==
  IF ~self.adaptive \/ file_size < self.threshold
  THEN <<self.head_size, self.tail_size>>
  ELSE IF file_size < 1 * GiB THEN <<self.head_size, self.tail_size>>
  ELSE IF file_size < 5 * GiB THEN <<20 * MiB, 20 * MiB>>
  ELSE <<50 * MiB, 50 * MiB>>

\* f.read(n) at offset pos of a file of file_size bytes: the bytes from pos
\* up to pos + n or the end of the file, as the pair <<first, end>>
FileRead(file_size, pos, n) == <<Min({pos, file_size}), Min({pos + n, file_size})>>

\* the value None of read_samples, and the empty bytes b''
NoSamples == [returned |-> FALSE, head |-> <<0, 0>>, tail |-> <<0, 0>>]
EmptyBytes == <<0, 0>>

\* read_samples that reads the last tail_size bytes, whatever the head holds
ReadSamples_tailFromEnd(self, file_size, readable) ==
  IF ~readable THEN NoSamples
  ELSE IF ~ShouldSample(self, file_size) THEN NoSamples
  ELSE LET sizes == GetSampleSizes(self, file_size)
           head == FileRead(file_size, 0, sizes[1])
           tail == IF file_size > sizes[1]
                   THEN FileRead(file_size, Max({0, file_size - sizes[2]}), sizes[2])
                   ELSE EmptyBytes
       IN  [returned |-> TRUE, head |-> head, tail |-> tail]

\* read_samples on a file of the size: None when the file cannot be read
\* or is not to be sampled, otherwise the head and tail byte ranges
ReadSamples(self, file_size, readable) ==
  IF ~readable THEN NoSamples
  ELSE IF ~ShouldSample(self, file_size) THEN NoSamples
  ELSE LET sizes == GetSampleSizes(self, file_size)
           head == FileRead(file_size, 0, sizes[1])
           tail == IF file_size > sizes[1]
                   THEN FileRead(file_size, Max({sizes[1], file_size - sizes[2]}), sizes[2])
                   ELSE EmptyBytes
       IN  [returned |-> TRUE, head |-> head, tail |-> tail]

(***************************************************************************)
(* DuplicateDetector                                                       *)
(***************************************************************************)
\* should_skip_file: "image", "too_small", "error" or "no"
ShouldSkipFile(disk, p, skip_images) ==
  IF skip_images /\ Suffix(p) \in IMAGE_EXTENSIONS THEN "image"
  ELSE IF ~disk[p].exists THEN "error"
  ELSE IF SizeOf(disk[p].content) < MIN_FILE_SIZE THEN "too_small"
  ELSE "no"

\* os.walk can list the directory: it exists and may be read
Listable(disk, directory) == disk[directory].exists /\ disk[directory].readable

\* the files os.walk finds below the directory; with the default onerror =
\* None the error of listing the directory itself is ignored and the walk
\* yields nothing
Walked(disk, directory) ==
  IF Listable(disk, directory)
  THEN {p \in FsPaths : disk[p].exists /\ IsUnder(p, directory)}
  ELSE {}

\* the files scan_directory collects
Collected(disk, directory, skip_images) ==
  {p \in Walked(disk, directory) : ShouldSkipFile(disk, p, skip_images) = "no"}

\* scan_directory: FileMetadata of the collected files, in the walk's order
ScanDirectory(disk, order) ==
  [i \in 1..Len(order) |->
     [path |-> order[i],
      size |-> SizeOf(disk[order[i]].content),
      mtime |-> disk[order[i]].mtime]]

\* compute_file_hash: the digest, or "" when the file cannot be read
ComputeFileHash(disk, p) ==
  IF disk[p].exists /\ disk[p].readable THEN HashOf(disk[p].content) ELSE NullHash

\* a detector that hashes every file it is given, whatever the store holds
HashFileWithCache_alwaysCompute(store, disk, file_meta, folder) ==
  LET file_hash == ComputeFileHash(disk, file_meta.path)
  IN  IF file_hash = NullHash
      THEN [store |-> store, hash |-> NullHash, hit |-> FALSE, computed |-> TRUE]
      ELSE [store |-> SaveToCache(store, file_meta.path, folder,
                                  file_meta.size, file_meta.mtime,
                                  file_hash, "full"),
            hash |-> file_hash, hit |-> FALSE, computed |-> TRUE]

\* hash_file_with_cache without the save_to_cache call of lines 256-263
HashFileWithCache_noSave(store, disk, file_meta, folder) ==
  LET cached == GetFromCache(store, file_meta.path, folder)
  IN  IF cached.present /\ cached.file_size = file_meta.size
         /\ cached.file_mtime = file_meta.mtime /\ cached.file_hash # NullHash
      THEN [store |-> store, hash |-> cached.file_hash, hit |-> TRUE, computed |-> FALSE]
      ELSE [store |-> store, hash |-> ComputeFileHash(disk, file_meta.path),
            hit |-> FALSE, computed |-> TRUE]

\* hash_file_with_cache: the new store, the hash returned (NullHash for None)
\* and whether it was a cache hit or a computation
HashFileWithCache(store, disk, file_meta, folder) ==
  LET cached == GetFromCache(store, file_meta.path, folder)
  IN  IF cached.present /\ cached.file_size = file_meta.size
         /\ cached.file_mtime = file_meta.mtime /\ cached.file_hash # NullHash
      THEN [store |-> store, hash |-> cached.file_hash, hit |-> TRUE, computed |-> FALSE]
      ELSE LET file_hash == ComputeFileHash(disk, file_meta.path)
           IN  IF file_hash = NullHash
               THEN [store |-> store, hash |-> NullHash, hit |-> FALSE, computed |-> TRUE]
               ELSE [store |-> SaveToCache(store, file_meta.path, folder,
                                           file_meta.size, file_meta.mtime,
                                           file_hash, "full"),
                     hash |-> file_hash, hit |-> FALSE, computed |-> TRUE]

\* an upsert that lets a modification time within one millisecond pass
NeedsMetadataUpsert_tolerant(store, file_meta, folder) ==
  LET cached == GetFromCache(store, file_meta.path, folder)
  IN  ~cached.present \/ cached.file_size # file_meta.size
        \/ cached.file_mtime - file_meta.mtime \notin -1..1

\* an upsert that looks at the size only
NeedsMetadataUpsert_sizeOnly(store, file_meta, folder) ==
  LET cached == GetFromCache(store, file_meta.path, folder)
  IN  ~cached.present \/ cached.file_size # file_meta.size

\* the metadata upsert of lines 300-312 for one file
NeedsMetadataUpsert(store, file_meta, folder) ==
  LET cached == GetFromCache(store, file_meta.path, folder)
  IN  ~cached.present \/ cached.file_size # file_meta.size
        \/ cached.file_mtime # file_meta.mtime

RECURSIVE UpsertMetadata(_, _, _, _)
\* lines 300-312: every scanned file gets a row; a new or changed one a row
\* without hash
UpsertMetadata(store, files, folder, i) ==
  IF i > Len(files) THEN store
  ELSE UpsertMetadata(
         IF NeedsMetadataUpsert(store, files[i], folder)
         THEN SaveToCache(store, files[i].path, folder, files[i].size,
                          files[i].mtime, NullHash, "None")
         ELSE store,
         files, folder, i + 1)

\* a filter that lets every size group through
InCollisionGroup_any(files, i) ==
  Cardinality({j \in 1..Len(files) : files[j].size = files[i].size}) >= 1

\* group_by_size and the collision filter of lines 321-325: the files that
\* share their size with at least one other scanned file
InCollisionGroup(files, i) ==
  Cardinality({j \in 1..Len(files) : files[j].size = files[i].size}) >= 2

\* position in files of the first file with the size of files[i]
FirstOfSize(files, i) == Min({j \in 1..Len(files) : files[j].size = files[i].size})

\* the order in which lines 356-357 visit the files of the collision groups:
\* size groups in order of first appearance, files in scan order within
HashingOrder(files) ==
  LET idx == {i \in 1..Len(files) : InCollisionGroup(files, i)}
      Before(i, j) == \/ FirstOfSize(files, i) < FirstOfSize(files, j)
                      \/ FirstOfSize(files, i) = FirstOfSize(files, j) /\ i < j
      Rank(i) == Cardinality({j \in idx : Before(j, i)}) + 1
  IN  [k \in 1..Cardinality(idx) |-> files[CHOOSE i \in idx : Rank(i) = k]]

\* state of the loop of lines 355-376 before any file is hashed
HashLoopStart(store) ==
  [store |-> store, lookups |-> {}, computed |-> {}, hits |-> {},
   hashed |-> <<>>, files_hashed |-> 0, cache_hits |-> 0, skipped_count |-> 0]

RECURSIVE HashLoop_stopOnError(_, _, _, _, _)
\* a loop that ends at the first file whose hash could not be computed
HashLoop_stopOnError(acc, disk, todo, folder, i) ==
  IF i > Len(todo) THEN acc
  ELSE LET r == HashFileWithCache(acc.store, disk, todo[i], folder)
           p == todo[i].path
       IN  IF r.hash = NullHash
           THEN [acc EXCEPT !.lookups = @ \cup {p},
                            !.computed = @ \cup {p},
                            !.skipped_count = @ + 1]
           ELSE HashLoop_stopOnError(
                  [store |-> r.store,
                   lookups |-> acc.lookups \cup {p},
                   computed |-> IF r.computed THEN acc.computed \cup {p} ELSE acc.computed,
                   hits |-> IF r.hit THEN acc.hits \cup {p} ELSE acc.hits,
                   hashed |-> Append(acc.hashed,
                                     [path |-> p, size |-> todo[i].size, hash |-> r.hash]),
                   files_hashed |-> IF r.computed
                                    THEN acc.files_hashed + 1 ELSE acc.files_hashed,
                   cache_hits |-> IF r.hit THEN acc.cache_hits + 1 ELSE acc.cache_hits,
                   skipped_count |-> acc.skipped_count],
                  disk, todo, folder, i + 1)

RECURSIVE HashLoop(_, _, _, _, _)
\* lines 355-376: hash_file_with_cache on every file of the collision groups;
\* hashed collects (path, size, hash) of the files that got a hash
HashLoop(acc, disk, todo, folder, i) ==
  IF i > Len(todo) THEN acc
  ELSE LET r == HashFileWithCache(acc.store, disk, todo[i], folder)
           p == todo[i].path
       IN  HashLoop(
             [store |-> r.store,
              lookups |-> acc.lookups \cup {p},
              computed |-> IF r.computed THEN acc.computed \cup {p} ELSE acc.computed,
              hits |-> IF r.hit THEN acc.hits \cup {p} ELSE acc.hits,
              hashed |-> IF r.hash = NullHash THEN acc.hashed
                         ELSE Append(acc.hashed,
                                     [path |-> p, size |-> todo[i].size, hash |-> r.hash]),
              files_hashed |-> IF r.computed /\ r.hash # NullHash
                               THEN acc.files_hashed + 1 ELSE acc.files_hashed,
              cache_hits |-> IF r.hit THEN acc.cache_hits + 1 ELSE acc.cache_hits,
              skipped_count |-> IF r.hash = NullHash
                                THEN acc.skipped_count + 1 ELSE acc.skipped_count],
             disk, todo, folder, i + 1)

\* the members of hash_groups[h], in insertion order
HashGroupMembers(hashed, h) ==
  LET F[i \in 0..Len(hashed)] ==
        IF i = 0 THEN <<>>
        ELSE IF hashed[i].hash = h THEN Append(F[i - 1], hashed[i]) ELSE F[i - 1]
  IN  F[Len(hashed)]

\* lines 386-400: one DuplicateGroup per hash with two or more files
DuplicateGroups(hashed) ==
  LET lists == {HashGroupMembers(hashed, h) : h \in {hashed[i].hash : i \in 1..Len(hashed)}}
  IN  {[hash |-> file_list[1].hash,
        files |-> [k \in 1..Len(file_list) |-> file_list[k].path],
        size |-> file_list[1].size] :
         file_list \in {l \in lists : Len(l) >= 2}}

RECURSIVE DuplicatesFound(_)
\* line 399 summed over the groups: the files beyond the first of each
DuplicatesFound(groups) ==
  IF groups = {} THEN 0
  ELSE LET g == CHOOSE x \in groups : TRUE
       IN  (Len(g.files) - 1) + DuplicatesFound(groups \ {g})

RECURSIVE BytesSaved(_)
\* line 400 summed over the groups
BytesSaved(groups) ==
  IF groups = {} THEN 0
  ELSE LET g == CHOOSE x \in groups : TRUE
       IN  g.size * (Len(g.files) - 1) + BytesSaved(groups \ {g})

\* the statistics of a detector before its run
ZeroStats ==
  [total_files |-> 0, skipped_images |-> 0, skipped_small |-> 0,
   unique_sizes |-> 0, size_collisions |-> 0, files_hashed |-> 0,
   cache_hits |-> 0, duplicates_found |-> 0, bytes_saved |-> 0]

\* what a detect_duplicates call leaves behind when no call was made yet
NoDetect ==
  [runs |-> 0, files |-> {}, found |-> {}, stale |-> {}, nulled |-> {},
   lookups |-> {}, computed |-> {}, hits |-> {}, hashed |-> {},
   skipped_count |-> 0, groups |-> {}, stats |-> ZeroStats]

\* detect_duplicates(directory, folder) with the walk visiting the collected
\* files in the given order: the store it leaves and the record of the call
DetectDuplicates(store, disk, directory, folder, skip_images, order, runs) ==
  LET files == ScanDirectory(disk, order)
      walked == Walked(disk, directory)
      scanStats ==
        [ZeroStats EXCEPT
           !.total_files = Len(files),
           !.skipped_images =
              Cardinality({p \in walked : ShouldSkipFile(disk, p, skip_images) = "image"}),
           !.skipped_small =
              Cardinality({p \in walked : ShouldSkipFile(disk, p, skip_images) = "too_small"})]
      fileSet == {files[i] : i \in 1..Len(files)}
      found == {[path |-> files[i].path,
                 file_size |-> GetFromCache(store, files[i].path, folder).file_size,
                 file_mtime |-> GetFromCache(store, files[i].path, folder).file_mtime] :
                  i \in {j \in 1..Len(files) :
                           GetFromCache(store, files[j].path, folder).present}}
      stale == {files[i].path : i \in {j \in 1..Len(files) :
                    /\ GetFromCache(store, files[j].path, folder).present
                    /\ NeedsMetadataUpsert(store, files[j], folder)}}
      nulled == {files[i].path : i \in {j \in 1..Len(files) :
                    NeedsMetadataUpsert(store, files[j], folder)}}
  IN  IF Len(files) = 0
      THEN [store |-> store,
            det |-> [NoDetect EXCEPT !.runs = runs, !.stats = scanStats]]
      ELSE
        LET store1 == UpsertMetadata(store, files, folder, 1)
            sizes == {files[i].size : i \in 1..Len(files)}
            collisionIdx == {i \in 1..Len(files) : InCollisionGroup(files, i)}
            collisionSizes == {files[i].size : i \in collisionIdx}
            loop == HashLoop(HashLoopStart(store1), disk, HashingOrder(files), folder, 1)
            groups == DuplicateGroups(loop.hashed)
        IN  [store |-> loop.store,
             det |-> [runs |-> runs,
                      files |-> fileSet,
                      found |-> found,
                      stale |-> stale,
                      nulled |-> nulled,
                      lookups |-> loop.lookups,
                      computed |-> loop.computed,
                      hits |-> loop.hits,
                      hashed |-> {loop.hashed[i] : i \in 1..Len(loop.hashed)},
                      skipped_count |-> loop.skipped_count,
                      groups |-> groups,
                      stats |-> [scanStats EXCEPT
                         !.unique_sizes = Cardinality(sizes) - Cardinality(collisionSizes),
                         !.size_collisions = Cardinality(collisionIdx),
                         !.files_hashed = loop.files_hashed,
                         !.cache_hits = loop.cache_hits,
                         !.duplicates_found = DuplicatesFound(groups),
                         !.bytes_saved = BytesSaved(groups)]]]

(***************************************************************************)
(* Stage3                                                                  *)
(***************************************************************************)
\* resolve_duplicates(group.files): analyze_file stats every member now
ResolveGroup(disk, files) ==
  ResolveInfos([i \in 1..Len(files) |->
                  AnalyzeFile(files[i], Parts(files[i]), Stat(disk, files[i]))])

\* the resolution plan of lines 162-177 and 297-312: one entry per group
\* that has something to delete
ResolutionPlan(disk, groups) ==
  LET resolved == {[keep |-> ResolveGroup(disk, g.files).keep,
                    delete |-> ResolveGroup(disk, g.files).delete,
                    size |-> g.size,
                    hash |-> g.hash] : g \in groups}
  IN  {e \in resolved : Len(e.delete) > 0}

RECURSIVE TotalToDelete(_)
\* total_to_delete
TotalToDelete(plan) ==
  IF plan = {} THEN 0
  ELSE LET e == CHOOSE x \in plan : TRUE
       IN  Len(e.delete) + TotalToDelete(plan \ {e})

RECURSIVE TotalSpace(_)
\* total_space
TotalSpace(plan) ==
  IF plan = {} THEN 0
  ELSE LET e == CHOOSE x \in plan : TRUE
       IN  e.size * Len(e.delete) + TotalSpace(plan \ {e})

RECURSIVE PlanDeletes(_)
\* every path of every delete list, in the order _execute_deletions takes them
PlanDeletes(plan) ==
  IF plan = {} THEN <<>>
  ELSE LET e == CHOOSE x \in plan : TRUE
       IN  e.delete \o PlanDeletes(plan \ {e})

\* _execute_deletions before its loop
DeletionStart(disk) ==
  [disk |-> disk, deleted_count |-> 0, deleted_space |-> 0,
   deleted |-> {}, errors |-> <<>>]

\* the entry appended to errors for a path that could not be deleted
DeletionError(disk, p) ==
  [kind |-> IF ~disk[p].exists THEN "File not found" ELSE "Permission denied",
   path |-> p]

RECURSIVE ExecuteDeletions_stopOnError(_, _, _, _)
\* a loop that ends at the first failure
ExecuteDeletions_stopOnError(acc, todo, denied, i) ==
  IF i > Len(todo) THEN acc
  ELSE LET p == todo[i]
       IN  IF ~acc.disk[p].exists \/ p \in denied
           THEN [acc EXCEPT !.errors = Append(@, DeletionError(acc.disk, p))]
           ELSE ExecuteDeletions_stopOnError(
                  [disk |-> [acc.disk EXCEPT ![p] = Absent],
                   deleted_count |-> acc.deleted_count + 1,
                   deleted_space |-> acc.deleted_space + SizeOf(acc.disk[p].content),
                   deleted |-> acc.deleted \cup {p},
                   errors |-> acc.errors],
                  todo, denied, i + 1)

RECURSIVE ExecuteDeletions_keepsFile(_, _, _, _)
\* a loop that counts a deletion without removing the file
ExecuteDeletions_keepsFile(acc, todo, denied, i) ==
  IF i > Len(todo) THEN acc
  ELSE LET p == todo[i]
       IN  ExecuteDeletions_keepsFile(
             IF ~acc.disk[p].exists \/ p \in denied
             THEN [acc EXCEPT !.errors = Append(@, DeletionError(acc.disk, p))]
             ELSE [disk |-> acc.disk,
                   deleted_count |-> acc.deleted_count + 1,
                   deleted_space |-> acc.deleted_space + SizeOf(acc.disk[p].content),
                   deleted |-> acc.deleted \cup {p},
                   errors |-> acc.errors],
             todo, denied, i + 1)

RECURSIVE ExecuteDeletions(_, _, _, _)
\* the loop of lines 528-557 over the delete lists; denied are the paths
\* whose os.remove raises PermissionError
ExecuteDeletions(acc, todo, denied, i) ==
  IF i > Len(todo) THEN acc
  ELSE LET p == todo[i]
       IN  ExecuteDeletions(
             IF ~acc.disk[p].exists \/ p \in denied
             THEN [acc EXCEPT !.errors = Append(@, DeletionError(acc.disk, p))]
             ELSE [disk |-> [acc.disk EXCEPT ![p] = Absent],
                   deleted_count |-> acc.deleted_count + 1,
                   deleted_space |-> acc.deleted_space + SizeOf(acc.disk[p].content),
                   deleted |-> acc.deleted \cup {p},
                   errors |-> acc.errors],
             todo, denied, i + 1)

\* self.stats of a new Stage3 object
ZeroStage3Stats ==
  [groups_found |-> 0, files_to_delete |-> 0, space_to_free |-> 0,
   files_deleted |-> 0, space_freed |-> 0]

\* no Stage3Results returned yet
NoRun ==
  [phase |-> "none", total_duplicates |-> 0, files_deleted |-> 0,
   space_freed |-> 0, duplicate_groups |-> {}, dry_run |-> TRUE,
   plan |-> {}, deleted |-> {}, errors |-> <<>>, input_folder |-> InputFolder]

\* the statistics of a run: the detector's counters for the input folder
\* (get_stats_summary), the number of duplicate groups, the files marked for
\* deletion and the bytes reclaimable (lines 182-184)
PhaseStats(d, r) ==
  [detector |-> d["input"].stats,
   groups_found |-> Cardinality(r.duplicate_groups),
   files_to_delete |-> r.total_duplicates,
   space_to_free |-> TotalSpace(r.plan)]

\* no run before the last
NoPrev ==
  [phase |-> "none", dry_run |-> TRUE, changed |-> FALSE,
   input_folder |-> NoRun.input_folder, files_deleted |-> 0, errors |-> 0,
   stats |-> PhaseStats([l \in Labels |-> NoDetect], NoRun)]

\* a run that deletes whatever dry_run says
ReportOrExecute_ignoreDryRun(dry_run, disk, plan, denied) ==
  ExecuteDeletions(DeletionStart(disk), PlanDeletes(plan), denied, 1)

\* lines 186-195 and 321-330: in dry-run mode _print_dry_run_report, which
\* only prints; otherwise _execute_deletions
ReportOrExecute(dry_run, disk, plan, denied) ==
  IF dry_run THEN DeletionStart(disk)
  ELSE ExecuteDeletions(DeletionStart(disk), PlanDeletes(plan), denied, 1)

\* lines 159-210 and 294-345: resolve the groups, report or delete, and
\* return Stage3Results; gives the new disk and the result
ResolveAndExecute(phase, dry_run, disk, groups, plan, denied) ==
  IF groups = {}
  THEN [disk |-> disk,
        res |-> [NoRun EXCEPT !.phase = phase, !.dry_run = dry_run]]
  ELSE
    LET stats1 == [ZeroStage3Stats EXCEPT !.groups_found = Cardinality(groups),
                                          !.files_to_delete = TotalToDelete(plan),
                                          !.space_to_free = TotalSpace(plan)]
        ex == ReportOrExecute(dry_run, disk, plan, denied)
        stats2 == IF dry_run THEN stats1
                  ELSE [stats1 EXCEPT !.files_deleted = ex.deleted_count,
                                      !.space_freed = ex.deleted_space]
    IN  [disk |-> ex.disk,
         res |-> [phase |-> phase,
                  total_duplicates |-> stats2.files_to_delete,
                  files_deleted |-> stats2.files_deleted,
                  space_freed |-> stats2.space_freed,
                  duplicate_groups |-> groups,
                  dry_run |-> dry_run,
                  plan |-> plan,
                  deleted |-> ex.deleted,
                  errors |-> ex.errors,
                  input_folder |-> NoRun.input_folder]]

\* the sizes that have a row under both labels (line 399)
CrossSizes(store) ==
  {sz \in {store[<<p, "input">>].file_size : p \in AllFiles(store, "input")} :
     \E q \in AllFiles(store, "output") : store[<<q, "output">>].file_size = sz}

\* files_to_hash of lines 395-407: rows without hash whose size is on both sides
FilesToHash(store) ==
  {k \in FsPaths \X Labels :
     /\ store[k].present
     /\ store[k].file_size \in CrossSizes(store)
     /\ store[k].file_hash = NullHash}

RECURSIVE HashMissing(_, _, _)
\* lines 427-445: hash_file_with_cache on the rows of files_to_hash whose
\* file exists, with the size and mtime of the row as metadata
HashMissing(store, disk, todo) ==
  IF todo = {} THEN store
  ELSE LET k == CHOOSE x \in todo : TRUE
           next ==
             IF ~disk[k[1]].exists THEN store
             ELSE HashFileWithCache(store, disk,
                                    [path |-> k[1],
                                     size |-> store[k].file_size,
                                     mtime |-> store[k].file_mtime],
                                    k[2]).store
       IN  HashMissing(next, disk, todo \ {k})

\* the rows of all_files (line 454) with hash h, in order
CrossMembers(store, all_files, h) ==
  LET F[i \in 0..Len(all_files)] ==
        IF i = 0 THEN <<>>
        ELSE IF store[all_files[i]].file_hash = h
             THEN Append(F[i - 1], all_files[i]) ELSE F[i - 1]
  IN  F[Len(all_files)]

\* a grouping that asks for two members, of whatever label
FindCrossFolderDuplicates_anyLabel(store1, inOrder, outOrder) ==
  LET all_files == [i \in 1..Len(inOrder) |-> <<inOrder[i], "input">>]
                     \o [i \in 1..Len(outOrder) |-> <<outOrder[i], "output">>]
      hashes == {store1[all_files[i]].file_hash : i \in 1..Len(all_files)} \ {NullHash}
      lists == {CrossMembers(store1, all_files, h) : h \in hashes}
  IN  {[hash |-> store1[files[1]].file_hash,
        size |-> store1[files[1]].file_size,
        files |-> [i \in 1..Len(files) |-> files[i][1]]] :
         files \in {l \in lists : Len(l) >= 2}}

\* lines 451-501 of _find_cross_folder_duplicates on the store left by the
\* hashing of lines 422-445, get_all_files returning the rows of the two
\* labels in the given orders
FindCrossFolderDuplicates(store1, inOrder, outOrder) ==
  LET all_files == [i \in 1..Len(inOrder) |-> <<inOrder[i], "input">>]
                     \o [i \in 1..Len(outOrder) |-> <<outOrder[i], "output">>]
      hashes == {store1[all_files[i]].file_hash : i \in 1..Len(all_files)} \ {NullHash}
      lists == {CrossMembers(store1, all_files, h) : h \in hashes}
      Folders(files) == {files[i][2] : i \in 1..Len(files)}
  IN  {[hash |-> store1[files[1]].file_hash,
        size |-> store1[files[1]].file_size,
        files |-> [i \in 1..Len(files) |-> files[i][1]]] :
         files \in {l \in lists : "input" \in Folders(l) /\ "output" \in Folders(l)}}

(***************************************************************************)
(* Stage4Processor                                                         *)
(***************************************************************************)
\* the files of the input tree that Stage 4 is given: one at the top
\* level, one in a subdirectory
Stage4Inputs == {"/in/a", "/in/KeEps/a"}

\* the places in the output tree
Stage4Outputs == {"/out/misc/a", "/out/KeEps/a", "/out/a"}

Stage4Paths == Stage4Inputs \cup Stage4Outputs

\* top_level_files of _relocate_files: the files directly in the input folder
TopLevelFiles(tree) == {p \in Stage4Inputs : tree[p].exists /\ Len(Parts(p)) = 3}

\* dest_path of lines 316-323: misc/<name> for a top-level file, the
\* relative path under the output folder for any other
DestPath(tree, file_path) ==
  IF file_path \in TopLevelFiles(tree) THEN "/out/misc/a" ELSE "/out/KeEps/a"

\* _move_file that replaces an existing destination
MoveFile_overwrite(tree, source, dest) ==
  [tree EXCEPT ![dest] = tree[source], ![source] = Absent]

\* _move_file: nothing is done when the destination exists; otherwise
\* shutil.move takes the file, with its timestamps, to the destination
MoveFile(tree, source, dest) ==
  IF tree[dest].exists THEN tree
  ELSE [tree EXCEPT ![dest] = tree[source], ![source] = Absent]

\* the lists of a new Stage4Processor; skipped holds the sources of the
\* warnings 'Destination exists, skipping'
RelocationStart(tree) ==
  [tree |-> tree, moved_files |-> <<>>, failed_files |-> <<>>,
   top_level_file_count |-> 0, skipped |-> {}]

\* the MovedFile record of lines 332-336
MovedFile(tree, source, dest) ==
  [source |-> source, destination |-> dest, size |-> SizeOf(tree[source].content)]

RECURSIVE RelocateFiles(_, _, _, _, _, _)
\* the loop of lines 314-340 over file_list; denied are the files whose
\* shutil.move raises; top is the set top_level_files and tree0 the tree
\* when the loop starts
RelocateFiles(acc, tree0, file_list, dry_run, denied, i) ==
  IF i > Len(file_list) THEN acc
  ELSE LET file_path == file_list[i]
           dest_path == DestPath(tree0, file_path)
           count == IF file_path \in TopLevelFiles(tree0)
                    THEN acc.top_level_file_count + 1
                    ELSE acc.top_level_file_count
           raises == ~dry_run /\ ~acc.tree[dest_path].exists /\ file_path \in denied
       IN  RelocateFiles(
             IF raises
             THEN [acc EXCEPT !.failed_files = Append(@, file_path),
                              !.top_level_file_count = count]
             ELSE [tree |-> IF dry_run THEN acc.tree
                            ELSE MoveFile(acc.tree, file_path, dest_path),
                   moved_files |-> Append(acc.moved_files,
                                          MovedFile(acc.tree, file_path, dest_path)),
                   failed_files |-> acc.failed_files,
                   top_level_file_count |-> count,
                   skipped |-> IF ~dry_run /\ acc.tree[dest_path].exists
                               THEN acc.skipped \cup {file_path} ELSE acc.skipped],
             tree0, file_list, dry_run, denied, i + 1)

\* _verify_relocation: the destinations of moved_files that do not exist
VerifyRelocation(tree, moved_files) ==
  {moved_files[i].destination : i \in {j \in 1..Len(moved_files) :
                                         ~tree[moved_files[j].destination].exists}}

\* the items of the input folder: a file, or a subdirectory with what it
\* holds
InputItems == {{"/in/a"}, {"/in/KeEps/a"}}

\* _cleanup_input_folder: unlink or rmtree of the items of the input folder;
\* an exception ends the loop, so that only the items in cleaned are removed
CleanupInputFolder(tree, cleaned) ==
  [p \in DOMAIN tree |-> IF \E item \in cleaned : p \in item THEN Absent ELSE tree[p]]

\* the data_transferred sum over moved_files
DataTransferred(moved_files) ==
  LET F[i \in 0..Len(moved_files)] ==
        IF i = 0 THEN 0 ELSE F[i - 1] + moved_files[i].size
  IN  F[Len(moved_files)]

\* no Stage 4 run yet
NoStage4 ==
  [ran |-> FALSE, files_moved |-> 0, top_level_files |-> 0, data_transferred |-> 0,
   input_cleaned |-> FALSE, failed_files |-> <<>>, dry_run |-> TRUE,
   preserve_input |-> FALSE, moved_files |-> <<>>, skipped |-> {}, missing |-> {}]

\* Stage4Processor(input_folder, output_folder, preserve_input,
\* dry_run).process(): relocation, verification and cleanup; the tree it
\* leaves and its Stage4Results, with the lists of the processor
Process(tree, preserve_input, dry_run, file_list, denied, cleaned) ==
  LET moved == RelocateFiles(RelocationStart(tree), tree, file_list, dry_run, denied, 1)
      missing == IF dry_run THEN {} ELSE VerifyRelocation(moved.tree, moved.moved_files)
      cleans == ~preserve_input /\ ~dry_run /\ moved.failed_files = <<>>
  IN  [tree |-> IF cleans THEN CleanupInputFolder(moved.tree, cleaned) ELSE moved.tree,
       results |-> [ran |-> TRUE,
                    files_moved |-> Len(moved.moved_files),
                    top_level_files |-> moved.top_level_file_count,
                    data_transferred |-> DataTransferred(moved.moved_files),
                    input_cleaned |-> cleans,
                    failed_files |-> moved.failed_files,
                    dry_run |-> dry_run,
                    preserve_input |-> preserve_input,
                    moved_files |-> moved.moved_files,
                    skipped |-> moved.skipped,
                    missing |-> missing]]

(***************************************************************************)
(* State                                                                   *)
(***************************************************************************)
VARIABLES
  rGroup,     \* resolver: the file_paths argument, with each path's stat()
  rResult,    \* resolver: the (keep, delete) returned, or NoResult
  rCmp,       \* resolver: compare_files on the first two members, or NoCmp
  disk,       \* the files: path -> [exists, content, mtime, readable]
  store,      \* the file_cache table: (path, folder) -> row
  skip_images,\* the skip_images setting given to every Stage3 object
  det,        \* per folder label, the record of the last detect_duplicates call
  res,        \* the Stage3Results of the last run, with its plan and deletions
  nRuns,      \* number of Stage3 runs so far
  nEdits,     \* number of changes made to the files so far
  changed,    \* a file or the table was changed by someone else since the
              \* last run
  prev,       \* the run before the last: its phase, mode and statistics, and
              \* whether anything was changed between it and the last run
  max_variables, \* SQLITE_MAX_VARIABLE_NUMBER of the SQLite library in use
  lookup,     \* the get_files_by_paths call made last on the present rows:
              \* arguments and outcome
  sampler,    \* the FileSampler object: threshold, head_size, tail_size, adaptive
  sampled,    \* the last get_sample_sizes / should_sample call on the sampler
  tree,       \* the files Stage 4 works on: path -> [exists, content, mtime, readable]
  s4          \* the Stage4Results of the last Stage 4 run, with the processor's lists

rVars == <<rGroup, rResult, rCmp>>
fsVars == <<disk, store, skip_images, det, res, nRuns, nEdits, changed, prev>>
vars == <<rGroup, rResult, rCmp, disk, store, skip_images, det, res, nRuns, nEdits,
          changed, prev, max_variables, lookup,
          sampler, sampled, tree, s4>>
s4Vars == <<tree, s4>>
libVars == <<max_variables, lookup, sampler, sampled, tree, s4>>

\* no get_files_by_paths call yet
NoLookup ==
  [called |-> FALSE, file_paths |-> <<>>, folder |-> "input", raised |-> FALSE,
   result |-> <<>>, statements |-> {}]

\* no call on the sampler yet
NoSample ==
  [called |-> FALSE, file_size |-> 0, should_sample |-> FALSE, sizes |-> <<0, 0>>,
   read |-> FALSE, readable |-> FALSE, samples |-> NoSamples]

\* no lookup was made and the sampler is a default one, not called
CacheIdle == max_variables \in VariableLimits /\ max_variables >= 32766 /\ lookup = NoLookup
SamplerIdle == sampler = DefaultSampler /\ sampled = NoSample
\* no Stage 4 run was made, on trees without files
Stage4Idle == tree = [p \in Stage4Paths |-> Absent] /\ s4 = NoStage4

NoResult == [keep |-> NoPath, delete |-> <<>>, done |-> FALSE]
NoCmp == [fwd |-> 0, bwd |-> 0, done |-> FALSE]

\* the FileInfo list built at line 176
GroupInfos(group) ==
  [i \in 1..Len(group) |-> AnalyzeFile(group[i].path, group[i].path, group[i].st)]

GroupPaths(group) == {group[i].path : i \in 1..Len(group)}

(***************************************************************************)
(* Specification of the resolver: a group of distinct paths is built, then *)
(* resolve_duplicates runs on it.                                          *)
(***************************************************************************)
\* no file, an empty store and a dry-run session
FsIdle ==
  /\ disk = [p \in FsPaths \cup Roots |-> Absent]
  /\ store = [k \in FsPaths \X Labels |-> NoRec]
  /\ skip_images = TRUE
  /\ det = [l \in Labels |-> NoDetect]
  /\ res = NoRun
  /\ nRuns = 0
  /\ nEdits = 0
  /\ changed = FALSE
  /\ prev = NoPrev

RInit ==
  /\ rGroup = <<>>
  /\ rResult = NoResult
  /\ rCmp = NoCmp
  /\ FsIdle
  /\ CacheIdle
  /\ SamplerIdle
  /\ Stage4Idle

\* the caller adds one more member to the duplicate group
AddMember ==
  /\ ~rResult.done /\ ~rCmp.done
  /\ Len(rGroup) < MaxGroup
  /\ \E p \in ResolverPaths \ GroupPaths(rGroup), m \in 1..MaxMtime :
       rGroup' = Append(rGroup, [path |-> p,
                                  st |-> [size |-> MIN_FILE_SIZE, mtime |-> m, exists |-> TRUE]])
  /\ UNCHANGED <<rResult, rCmp>>
  /\ UNCHANGED fsVars
  /\ UNCHANGED libVars

\* compare_files(a, b) and compare_files(b, a) on a pair of analysed files
CompareAction ==
  /\ ~rResult.done /\ ~rCmp.done
  /\ Len(rGroup) = 2
  /\ LET infos == GroupInfos(rGroup)
     IN  rCmp' = [fwd |-> CompareFiles(infos[1], infos[2]),
                  bwd |-> CompareFiles(infos[2], infos[1]),
                  done |-> TRUE]
  /\ UNCHANGED <<rGroup, rResult>>
  /\ UNCHANGED fsVars
  /\ UNCHANGED libVars

\* resolve_duplicates(file_paths)
ResolveDuplicates ==
  /\ ~rResult.done /\ ~rCmp.done
  /\ Len(rGroup) >= 2
  /\ LET r == ResolveInfos(GroupInfos(rGroup))
     IN  rResult' = [keep |-> r.keep, delete |-> r.delete, done |-> TRUE]
  /\ UNCHANGED <<rGroup, rCmp>>
  /\ UNCHANGED fsVars
  /\ UNCHANGED libVars

RNext == AddMember \/ CompareAction \/ ResolveDuplicates

SpecResolver == RInit /\ [][RNext]_vars

(***************************************************************************)
(* Specification of Stage 3: files are written, removed and made           *)
(* unreadable between runs; Stage3 objects are created on one store and    *)
(* run Phase A (run_stage3a) and Phase B (run_stage3b).                    *)
(***************************************************************************)
\* a readable file
File(c, m) == [exists |-> TRUE, content |-> c, mtime |-> m, readable |-> TRUE]

\* a file without read permission
Unreadable(c, m) == [exists |-> TRUE, content |-> c, mtime |-> m, readable |-> FALSE]

\* a directory that can be listed
Directory == [exists |-> TRUE, content |-> 0, mtime |-> 0, readable |-> TRUE]

\* the trees present when the first Stage3 object is created: a small and
\* two larger files in the input tree, a small one in the output tree; the
\* small input file may lack read permission
InitialDisks ==
  {d \in [FsPaths \cup Roots -> {File(1, 1), File(3, 1), Unreadable(1, 1), Directory}] :
     /\ \A r \in Roots : d[r] = Directory
     /\ d["/in/a"].content = 1
     /\ d["/in/KeEps/a"] = File(3, 1)
     /\ d["/in/b.png"] = File(3, 1)
     /\ d["/out/a"] = File(1, 1)}

Init ==
  /\ disk \in InitialDisks
  /\ store = [k \in FsPaths \X Labels |-> NoRec]
  /\ skip_images \in BOOLEAN
  /\ det = [l \in Labels |-> NoDetect]
  /\ res = NoRun
  /\ nRuns = 0
  /\ nEdits = 0
  /\ changed = FALSE
  /\ prev = NoPrev
  /\ rGroup = <<>>
  /\ rResult = NoResult
  /\ rCmp = NoCmp
  /\ CacheIdle
  /\ SamplerIdle
  /\ Stage4Idle

\* a further run may start
MayRun == nRuns + nEdits < MaxSteps

\* files change between two runs
MayEdit == nRuns >= 1 /\ nRuns + nEdits + 1 < MaxSteps

\* a file is created in an existing tree, or rewritten with a new
\* modification time; the mode of an existing file stays
WriteFile ==
  /\ MayEdit
  /\ \E p \in FsPaths, c \in Contents, m \in 1..MaxMtime :
       /\ \A r \in Roots : IsUnder(p, r) => disk[r].exists
       /\ disk[p].exists => m # disk[p].mtime
       /\ disk' = [disk EXCEPT ![p] =
                     [exists |-> TRUE, content |-> c, mtime |-> m,
                      readable |-> IF disk[p].exists THEN disk[p].readable ELSE TRUE]]
  /\ nEdits' = nEdits + 1
  /\ changed' = TRUE
  /\ UNCHANGED <<store, skip_images, det, res, nRuns, prev>>
  /\ UNCHANGED rVars
  /\ UNCHANGED libVars

\* a file is removed by someone else
RemoveFile ==
  /\ MayEdit
  /\ \E p \in FsPaths :
       /\ disk[p].exists
       /\ disk' = [disk EXCEPT ![p] = Absent]
  /\ nEdits' = nEdits + 1
  /\ changed' = TRUE
  /\ UNCHANGED <<store, skip_images, det, res, nRuns, prev>>
  /\ UNCHANGED rVars
  /\ UNCHANGED libVars

\* a file loses its read permission
MakeUnreadable ==
  /\ MayEdit
  /\ \E p \in FsPaths :
       /\ disk[p].exists /\ disk[p].readable
       /\ disk' = [disk EXCEPT ![p].readable = FALSE]
  /\ nEdits' = nEdits + 1
  /\ changed' = TRUE
  /\ UNCHANGED <<store, skip_images, det, res, nRuns, prev>>
  /\ UNCHANGED rVars
  /\ UNCHANGED libVars

\* a root directory is removed with all its files
RemoveTree ==
  /\ MayEdit
  /\ \E r \in Roots :
       /\ disk[r].exists
       /\ disk' = [p \in FsPaths \cup Roots |->
                     IF p = r \/ IsUnder(p, r) THEN Absent ELSE disk[p]]
  /\ nEdits' = nEdits + 1
  /\ changed' = TRUE
  /\ UNCHANGED <<store, skip_images, det, res, nRuns, prev>>
  /\ UNCHANGED rVars
  /\ UNCHANGED libVars

\* a root directory loses its read permission: it cannot be listed, its
\* files can still be reached by their paths
MakeUnlistable ==
  /\ MayEdit
  /\ \E r \in Roots :
       /\ Listable(disk, r)
       /\ disk' = [disk EXCEPT ![r].readable = FALSE]
  /\ nEdits' = nEdits + 1
  /\ changed' = TRUE
  /\ UNCHANGED <<store, skip_images, det, res, nRuns, prev>>
  /\ UNCHANGED rVars
  /\ UNCHANGED libVars

\* HashCache.clear_cache() between two runs, on a table that holds rows
ClearCache ==
  /\ MayEdit
  /\ \E k \in DOMAIN store : store[k].present
  /\ store' = DeleteAllRows(store)
  /\ nEdits' = nEdits + 1
  /\ changed' = TRUE
  /\ UNCHANGED <<disk, skip_images, det, res, nRuns, prev>>
  /\ UNCHANGED rVars
  /\ UNCHANGED libVars

\* Stage3(input_folder, dry_run = dry).run_stage3a(); the walk visits the
\* collected files in some order, and os.remove fails on the denied paths
RunStage3a ==
  /\ MayRun
  /\ \E dry \in BOOLEAN, input_folder \in Roots :
       \E order \in Orders(Collected(disk, input_folder, skip_images)) :
       \E d \in {DetectDuplicates(store, disk, input_folder, "input", skip_images,
                                  order, det["input"].runs + 1)} :
       \E plan \in {ResolutionPlan(disk, d.det.groups)} :
       \E denied \in (IF dry THEN {{}} ELSE SUBSET Range(PlanDeletes(plan))) :
       \E r \in {ResolveAndExecute("3a", dry, disk, d.det.groups, plan, denied)} :
         /\ store' = d.store
         /\ det' = [det EXCEPT !["input"] = d.det]
         /\ disk' = r.disk
         /\ res' = [r.res EXCEPT !.input_folder = input_folder]
  /\ nRuns' = nRuns + 1
  /\ changed' = FALSE
  /\ prev' = [phase |-> res.phase, dry_run |-> res.dry_run, changed |-> changed,
              input_folder |-> res.input_folder, files_deleted |-> res.files_deleted,
              errors |-> Len(res.errors), stats |-> PhaseStats(det, res)]
  /\ UNCHANGED <<skip_images, nEdits>>
  /\ UNCHANGED rVars
  /\ UNCHANGED libVars

\* Stage3(input_folder, output_folder, dry_run = dry).run_stage3b(): the
\* input folder is scanned only when the store has no row under "input"
\* (lines 238-256), the output folder always (lines 258-266); then
\* _find_cross_folder_duplicates, get_all_files returning the rows in some
\* order
RunStage3b ==
  /\ MayRun
  /\ \E dry \in BOOLEAN, input_folder \in InputFolders :
       \E orderIn \in (IF AllFiles(store, "input") = {}
                       THEN Orders(Collected(disk, input_folder, skip_images))
                       ELSE {<<>>}),
          orderOut \in Orders(Collected(disk, OutputFolder, skip_images)) :
       \E dIn \in {IF AllFiles(store, "input") = {}
                   THEN DetectDuplicates(store, disk, input_folder, "input",
                                         skip_images, orderIn, det["input"].runs + 1)
                   ELSE [store |-> store, det |-> det["input"]]} :
       \E dOut \in {DetectDuplicates(dIn.store, disk, OutputFolder, "output",
                                     skip_images, orderOut, det["output"].runs + 1)} :
       \E store1 \in {HashMissing(dOut.store, disk, FilesToHash(dOut.store))} :
       \E rowsIn \in Orders(AllFiles(store1, "input")),
          rowsOut \in Orders(AllFiles(store1, "output")) :
       \E groups \in {FindCrossFolderDuplicates(store1, rowsIn, rowsOut)} :
       \E plan \in {ResolutionPlan(disk, groups)} :
       \E denied \in (IF dry THEN {{}} ELSE SUBSET Range(PlanDeletes(plan))) :
       \E r \in {ResolveAndExecute("3b", dry, disk, groups, plan, denied)} :
         /\ store' = store1
         /\ det' = [det EXCEPT !["input"] = dIn.det, !["output"] = dOut.det]
         /\ disk' = r.disk
         /\ res' = [r.res EXCEPT !.input_folder = input_folder]
  /\ nRuns' = nRuns + 1
  /\ changed' = FALSE
  /\ prev' = [phase |-> res.phase, dry_run |-> res.dry_run, changed |-> changed,
              input_folder |-> res.input_folder, files_deleted |-> res.files_deleted,
              errors |-> Len(res.errors), stats |-> PhaseStats(det, res)]
  /\ UNCHANGED <<skip_images, nEdits>>
  /\ UNCHANGED rVars
  /\ UNCHANGED libVars

Next ==
  \/ WriteFile
  \/ RemoveFile
  \/ MakeUnreadable
  \/ RemoveTree
  \/ MakeUnlistable
  \/ ClearCache
  \/ RunStage3a
  \/ RunStage3b

Spec == Init /\ [][Next]_vars

(***************************************************************************)
(* Specification of the HashCache lookups: rows are saved, and             *)
(* get_files_by_paths is called with lists of any length.                  *)
(***************************************************************************)
\* the paths of the lookups
CachePaths == {"/in/a", "/out/a"}

\* the lengths of the lists looked up: around one batch and two batches
ListLengths ==
  {0, 1, BATCH_SIZE - 1, BATCH_SIZE, BATCH_SIZE + 1, 2 * BATCH_SIZE + 1}

\* the lists looked up repeat one path, or two paths in turn
LookupPatterns == {<<"/in/a">>, <<"/out/a">>, <<"/in/a", "/out/a">>}

\* the list of the given length that repeats the pattern
Cycle(pattern, n) == [i \in 1..n |-> pattern[((i - 1) % Len(pattern)) + 1]]

CInit ==
  /\ rGroup = <<>>
  /\ rResult = NoResult
  /\ rCmp = NoCmp
  /\ FsIdle
  /\ SamplerIdle
  /\ Stage4Idle
  /\ max_variables \in VariableLimits
  /\ lookup = NoLookup

\* save_to_cache(file_path, folder, ...); no lookup was made on the new rows
CacheSave ==
  /\ Cardinality({k \in CachePaths \X Labels : store[k].present}) < MaxRows
  /\ \E p \in CachePaths, l \in Labels, c \in 1..2 :
       /\ ~store[<<p, l>>].present
       /\ store' = SaveToCache(store, p, l, SizeOf(c), 1, HashOf(c), "full")
  /\ lookup' = NoLookup
  /\ UNCHANGED <<disk, skip_images, det, res, nRuns, nEdits, changed, prev>>
  /\ UNCHANGED <<max_variables, sampler, sampled>>
  /\ UNCHANGED s4Vars
  /\ UNCHANGED rVars

\* get_files_by_paths(file_paths, folder); it only reads the rows, so one
\* call is followed per state of the rows
CacheLookup ==
  /\ ~lookup.called
  /\ \E pattern \in LookupPatterns, n \in ListLengths, l \in Labels :
       \E file_paths \in {Cycle(pattern, n)} :
       \E r \in {GetFilesByPaths(store, file_paths, l, max_variables)} :
         lookup' = [called |-> TRUE, file_paths |-> file_paths, folder |-> l,
                    raised |-> r.raised, result |-> r.result,
                    statements |-> r.statements]
  /\ UNCHANGED fsVars
  /\ UNCHANGED <<max_variables, sampler, sampled>>
  /\ UNCHANGED s4Vars
  /\ UNCHANGED rVars

CNext ==
  \/ CacheSave
  \/ CacheLookup

SpecCache == CInit /\ [][CNext]_vars

(***************************************************************************)
(* Specification of the FileSampler: a sampler is configured and asked for *)
(* the sample sizes of files.                                              *)
(***************************************************************************)
\* the samplers: the default one, and others with a smaller or larger
\* threshold, smaller samples, or not adaptive
Samplers ==
  [threshold : {DEFAULT_THRESHOLD, 1 * MiB, 2 * GiB},
   head_size : {DEFAULT_HEAD_SIZE, 1 * MiB},
   tail_size : {DEFAULT_TAIL_SIZE, 1 * MiB},
   adaptive : BOOLEAN]

\* the file sizes asked for: around the sample sizes, the threshold, 1 GiB
\* and 5 GiB
FileSizes ==
  {0, 1, 1 * MiB, 2 * MiB - 1, 5 * MiB, DEFAULT_HEAD_SIZE, DEFAULT_HEAD_SIZE + 1,
   DEFAULT_THRESHOLD - 1, DEFAULT_THRESHOLD, DEFAULT_THRESHOLD + 1,
   1 * GiB - 1, 1 * GiB, 1 * GiB + 1, 2 * GiB, 5 * GiB - 1, 5 * GiB, 5 * GiB + 1}

SInit ==
  /\ rGroup = <<>>
  /\ rResult = NoResult
  /\ rCmp = NoCmp
  /\ FsIdle
  /\ CacheIdle
  /\ Stage4Idle
  /\ sampler \in Samplers
  /\ sampled = NoSample

\* sampler.should_sample(file_size) and sampler.get_sample_sizes(file_size)
SampleSizes ==
  /\ \E file_size \in FileSizes :
       sampled' = [called |-> TRUE, file_size |-> file_size,
                   should_sample |-> ShouldSample(sampler, file_size),
                   sizes |-> GetSampleSizes(sampler, file_size),
                   read |-> FALSE, readable |-> FALSE, samples |-> NoSamples]
  /\ UNCHANGED fsVars
  /\ UNCHANGED <<max_variables, lookup, sampler>>
  /\ UNCHANGED s4Vars
  /\ UNCHANGED rVars

\* sampler.read_samples(file_path) on a file of the size, which can be
\* read or not
SampleFile ==
  /\ \E file_size \in FileSizes, readable \in BOOLEAN :
       sampled' = [called |-> TRUE, file_size |-> file_size,
                   should_sample |-> ShouldSample(sampler, file_size),
                   sizes |-> GetSampleSizes(sampler, file_size),
                   read |-> TRUE, readable |-> readable,
                   samples |-> ReadSamples(sampler, file_size, readable)]
  /\ UNCHANGED fsVars
  /\ UNCHANGED <<max_variables, lookup, sampler>>
  /\ UNCHANGED s4Vars
  /\ UNCHANGED rVars

SNext == SampleSizes \/ SampleFile

SpecSampler == SInit /\ [][SNext]_vars

(***************************************************************************)
(* Specification of Stage 4: files are moved from the input tree to the    *)
(* output tree, and the input tree is cleaned.                             *)
(***************************************************************************)
\* the trees Stage 4 may find: each input file absent or with one of two
\* contents, and each place in the output tree free or taken
InitialTrees ==
  {t \in [Stage4Paths -> {Absent, File(1, 1), File(2, 1)}] :
     t["/out/a"] # File(2, 1)}

Init4 ==
  /\ rGroup = <<>>
  /\ rResult = NoResult
  /\ rCmp = NoCmp
  /\ FsIdle
  /\ CacheIdle
  /\ SamplerIdle
  /\ tree \in InitialTrees
  /\ s4 = NoStage4

\* a Stage 4 run with some settings; shutil.move fails on the denied files
\* and the cleanup gets as far as the cleaned items
RunStage4 ==
  /\ \E preserve_input \in BOOLEAN, dry_run \in BOOLEAN,
        denied \in SUBSET Stage4Inputs, cleaned \in SUBSET InputItems :
       \E file_list \in Orders({p \in Stage4Inputs : tree[p].exists}) :
       \E r \in {Process(tree, preserve_input, dry_run, file_list, denied, cleaned)} :
         /\ tree' = r.tree
         /\ s4' = r.results
  /\ UNCHANGED fsVars
  /\ UNCHANGED <<max_variables, lookup, sampler, sampled>>
  /\ UNCHANGED rVars

Next4 == RunStage4

SpecStage4 == Init4 /\ [][Next4]_vars

(***************************************************************************)
(* Properties of the resolution policy                                     *)
(***************************************************************************)
\* the keyword occurs, in any case, in one part of the path
PartHasKeyword(part) == Contains(Lower(part), KEEP)
\* ... in the full path
PathHasKeyword(p) == \E k \in 2..Len(p) : PartHasKeyword(p[k])
\* ... in the name of an ancestor directory
DirHasKeyword(p) == \E k \in 2..(Len(p) - 1) : PartHasKeyword(p[k])
\* ... only in the final file name
OnlyNameHasKeyword(p) == PartHasKeyword(p[Len(p)]) /\ ~DirHasKeyword(p)
\* index of the first ancestor directory holding the keyword
FirstKeywordDir(p) == Min({k \in 2..(Len(p) - 1) : PartHasKeyword(p[k])})

\* compare_files ranked the member at index i of the compared pair above the other
RankedAbove(i) ==
  IF i = 1 THEN rCmp.fwd = -1 /\ rCmp.bwd = 1
  ELSE rCmp.fwd = 1 /\ rCmp.bwd = -1

\* the two ways of naming the compared pair (a, b)
PairIdx == {<<1, 2>>, <<2, 1>>}

\* C1: resolve_duplicates on a group of two or more pairwise distinct paths
\* returns a keep that is a member, that does not occur in delete, and a
\* delete list holding exactly the other members, each once.
C1_KeepAndDeletePartitionGroup ==
  rResult.done =>
    /\ rResult.keep \in GroupPaths(rGroup)
    /\ rResult.keep \notin Range(rResult.delete)
    /\ Range(rResult.delete) = GroupPaths(rGroup) \ {rResult.keep}
    /\ Len(rResult.delete) = Len(rGroup) - 1

\* a group of three was resolved and the kept file is not the first member
C1_Witness ==
  /\ rResult.done
  /\ Len(rGroup) = 3
  /\ rResult.keep # rGroup[1].path

\* C7: a file whose full path holds "keep" (case-insensitively) is ranked
\* above one whose path does not, whatever their depths and mtimes, and
\* resolve_duplicates on a group holding both never keeps the one without.
C7_KeywordOutranksNoKeyword ==
  /\ rCmp.done =>
       \A ab \in PairIdx :
         LET a == rGroup[ab[1]].path
             b == rGroup[ab[2]].path
         IN  (PathHasKeyword(a) /\ ~PathHasKeyword(b)) => RankedAbove(ab[1])
  /\ rResult.done =>
       \A i, j \in 1..Len(rGroup) :
         (PathHasKeyword(rGroup[i].path) /\ ~PathHasKeyword(rGroup[j].path))
           => rResult.keep # rGroup[j].path

\* the file with the keyword is shallower and older than the one without,
\* and was ranked above it
C7_Witness ==
  /\ rCmp.done
  /\ PathHasKeyword(rGroup[1].path) /\ ~PathHasKeyword(rGroup[2].path)
  /\ Len(rGroup[1].path) < Len(rGroup[2].path)
  /\ rGroup[1].st.mtime < rGroup[2].st.mtime
  /\ rCmp.fwd = -1

\* C8: of two files that both hold "keep", the one holding it in an ancestor
\* directory name is ranked above the one holding it only in the file name,
\* whatever their depths and mtimes.
C8_FolderOutranksFileName ==
  rCmp.done =>
    \A ab \in PairIdx :
      LET a == rGroup[ab[1]].path
          b == rGroup[ab[2]].path
      IN  (DirHasKeyword(a) /\ OnlyNameHasKeyword(b)) => RankedAbove(ab[1])

\* the file with the keyword in a directory is shallower and older than the
\* one with the keyword in its name only, and was ranked above it
C8_Witness ==
  /\ rCmp.done
  /\ DirHasKeyword(rGroup[2].path) /\ OnlyNameHasKeyword(rGroup[1].path)
  /\ Len(rGroup[2].path) < Len(rGroup[1].path)
  /\ rGroup[2].st.mtime < rGroup[1].st.mtime
  /\ rCmp.fwd = 1

\* C9: of two files that both hold "keep" in an ancestor directory name, the
\* one whose first such directory, from the root, has the smaller index is
\* ranked above the other, whatever their depths and mtimes.
C9_HigherAncestorOutranks ==
  rCmp.done =>
    \A ab \in PairIdx :
      LET a == rGroup[ab[1]].path
          b == rGroup[ab[2]].path
      IN  (DirHasKeyword(a) /\ DirHasKeyword(b)
            /\ FirstKeywordDir(a) < FirstKeywordDir(b)) => RankedAbove(ab[1])

\* the file with the higher keyword ancestor is shallower and older than the
\* other, and was ranked above it
C9_Witness ==
  /\ rCmp.done
  /\ DirHasKeyword(rGroup[1].path) /\ DirHasKeyword(rGroup[2].path)
  /\ FirstKeywordDir(rGroup[1].path) < FirstKeywordDir(rGroup[2].path)
  /\ Len(rGroup[1].path) < Len(rGroup[2].path)
  /\ rGroup[1].st.mtime < rGroup[2].st.mtime
  /\ rCmp.fwd = -1

\* the keyword tiers do not tell the two paths apart
KeywordTiersTie(a, b) ==
  \/ ~PathHasKeyword(a) /\ ~PathHasKeyword(b)
  \/ OnlyNameHasKeyword(a) /\ OnlyNameHasKeyword(b)
  \/ /\ DirHasKeyword(a) /\ DirHasKeyword(b)
     /\ FirstKeywordDir(a) = FirstKeywordDir(b)

\* C10: of two files the keyword tiers do not distinguish, the one with more
\* path components is ranked above the other whatever the mtimes, and with
\* equal component counts the one with the later mtime is ranked above.
C10_DepthThenMtime ==
  rCmp.done =>
    \A ab \in PairIdx :
      LET a == rGroup[ab[1]]
          b == rGroup[ab[2]]
      IN  KeywordTiersTie(a.path, b.path) =>
            /\ Len(a.path) > Len(b.path) => RankedAbove(ab[1])
            /\ (Len(a.path) = Len(b.path) /\ a.st.mtime > b.st.mtime)
                 => RankedAbove(ab[1])

\* both files hold the keyword in the same ancestor, the deeper one is the
\* older one and was ranked above the other
C10_Witness ==
  /\ rCmp.done
  /\ DirHasKeyword(rGroup[1].path) /\ DirHasKeyword(rGroup[2].path)
  /\ FirstKeywordDir(rGroup[1].path) = FirstKeywordDir(rGroup[2].path)
  /\ Len(rGroup[1].path) > Len(rGroup[2].path)
  /\ rGroup[1].st.mtime < rGroup[2].st.mtime
  /\ rCmp.fwd = -1

\* two members tie on every tier
TieOnEveryTier(a, b) ==
  /\ KeywordTiersTie(a.path, b.path)
  /\ Len(a.path) = Len(b.path)
  /\ a.st.mtime = b.st.mtime

\* member a is above member b by the first tier that tells them apart
Outranks(a, b) ==
  \/ PathHasKeyword(a.path) /\ ~PathHasKeyword(b.path)
  \/ DirHasKeyword(a.path) /\ OnlyNameHasKeyword(b.path)
  \/ /\ DirHasKeyword(a.path) /\ DirHasKeyword(b.path)
     /\ FirstKeywordDir(a.path) < FirstKeywordDir(b.path)
  \/ /\ KeywordTiersTie(a.path, b.path)
     /\ \/ Len(a.path) > Len(b.path)
        \/ Len(a.path) = Len(b.path) /\ a.st.mtime > b.st.mtime

\* every ordering of the members of a group
Orderings(group) ==
  {[i \in 1..Len(group) |-> group[f[i]]] :
     f \in {g \in [1..Len(group) -> 1..Len(group)] :
              \A i, j \in 1..Len(group) : i # j => g[i] # g[j]}}

\* resolve_duplicates on the ordering returns the keep and the delete set
\* that were returned for rGroup
SameOutcome(ordering) ==
  LET r == ResolveInfos(GroupInfos(ordering))
  IN  r.keep = rResult.keep /\ Range(r.delete) = Range(rResult.delete)

\* C11: when all members of the group tie on every tier, resolve_duplicates
\* keeps the first member of the list and deletes all the others
C11_AllTieKeepsFirst ==
  (rResult.done /\ \A i, j \in 1..Len(rGroup) : TieOnEveryTier(rGroup[i], rGroup[j]))
    => /\ rResult.keep = rGroup[1].path
       /\ rResult.delete = [i \in 1..(Len(rGroup) - 1) |-> rGroup[i + 1].path]

\* a group of three members that tie on every tier was resolved
C11_Witness ==
  /\ rResult.done
  /\ Len(rGroup) = 3
  /\ \A i, j \in 1..3 : TieOnEveryTier(rGroup[i], rGroup[j])

\* C12 as stated: every ordering of the members of the group gives the keep
\* and the delete set that resolve_duplicates returned
C12_Original ==
  rResult.done => \A ordering \in Orderings(rGroup) : SameOutcome(ordering)

\* C12 (amended): ... when one member is above every other member
C12_OrderIndependentWithUniqueBest ==
  (rResult.done /\ \E i \in 1..Len(rGroup) :
                     \A j \in 1..Len(rGroup) \ {i} : Outranks(rGroup[i], rGroup[j]))
    => \A ordering \in Orderings(rGroup) : SameOutcome(ordering)

\* a group of three was resolved whose last member is above the two others,
\* and the second is above the first
C12_Witness ==
  /\ rResult.done
  /\ Len(rGroup) = 3
  /\ Outranks(rGroup[3], rGroup[1]) /\ Outranks(rGroup[3], rGroup[2])
  /\ Outranks(rGroup[2], rGroup[1])
  /\ rResult.keep = rGroup[3].path


(***************************************************************************)
(* Properties of Stage 3 and of the detector                               *)
(***************************************************************************)
\* the files present on disk
FilesOnDisk(d) == {p \in FsPaths : d[p].exists}
\* the step is a run of run_stage3a or run_stage3b
StageRan == nRuns' = nRuns + 1
\* the step holds a detect_duplicates call for the label
DetectorRan(l) == det'[l].runs = det[l].runs + 1
\* the directory scanned for a label
LabelFolder(l) == IF l = "input" THEN res'.input_folder ELSE OutputFolder
\* the paths of a set of FileMetadata
PathsOf(files) == {f.path : f \in files}
\* before the step, the row of p under l has a size or mtime other than
\* the file's
RecordDiffers(l, p) ==
  /\ store[<<p, l>>].present
  /\ disk[p].exists
  /\ \/ store[<<p, l>>].file_size # SizeOf(disk[p].content)
     \/ store[<<p, l>>].file_mtime # disk[p].mtime
\* p shares its size with another of the scanned files
Collides(files, p) ==
  \E f \in files, g \in files : f.path = p /\ g.path # p /\ g.size = f.size

C3_Original ==
  [][\A l \in Labels, p \in FsPaths :
       DetectorRan(l) /\ IsUnder(p, LabelFolder(l)) /\ RecordDiffers(l, p) =>
         /\ p \notin det'[l].hits
         /\ p \in det'[l].nulled
         /\ Collides(det'[l].files, p) =>
              /\ p \in det'[l].computed
              /\ store'[<<p, l>>].file_hash = HashOf(disk[p].content)]_vars

\* C3 (amended): the same for the files the scan collects, the hash being
\* written back unless the file cannot be read
C3_StaleRecordRenewed ==
  [][\A l \in Labels, p \in FsPaths :
       DetectorRan(l) /\ p \in PathsOf(det'[l].files) /\ RecordDiffers(l, p) =>
         /\ p \notin det'[l].hits
         /\ p \in det'[l].nulled
         /\ Collides(det'[l].files, p) =>
              /\ p \in det'[l].computed
              /\ disk[p].readable =>
                   store'[<<p, l>>].file_hash = HashOf(disk[p].content)]_vars

\* the last detector run of a label found a row that differed from its
\* file, overwrote it, computed the hash anew and wrote it back
C3_Witness ==
  \E l \in Labels : \E p \in det[l].stale :
    /\ p \in det[l].nulled /\ p \in det[l].computed
    /\ Collides(det[l].files, p)
    /\ store[<<p, l>>].file_hash # NullHash

\* C4 as stated: a file with the same size and mtime in two consecutive
\* detect_duplicates calls for a label is not hashed by the second
C4_Original ==
  [][\A l \in Labels :
       DetectorRan(l) /\ det[l].runs >= 1 =>
         \A f \in det[l].files \cap det'[l].files :
           f.path \notin det'[l].computed]_vars

\* C4 (amended): ... provided its row holds a hash when the second call
\* starts
C4_UnchangedHashedFileNotRehashed ==
  [][\A l \in Labels :
       DetectorRan(l) /\ det[l].runs >= 1 =>
         \A f \in det[l].files \cap det'[l].files :
           store[<<f.path, l>>].file_hash # NullHash =>
             f.path \notin det'[l].computed]_vars

\* a second detector run of a label has answered a lookup from the store
C4_Witness ==
  \E l \in Labels :
    /\ det[l].runs >= 2
    /\ \E f \in det[l].files : f.path \in det[l].hits /\ f.path \notin det[l].computed

\* C5: hash_file_with_cache is called only for files that share their size
\* with another scanned file
C5_UniqueSizeNeverHashed ==
  \A l \in Labels : \A p \in det[l].lookups : Collides(det[l].files, p)

\* a detector run has looked up some files and left out a scanned file
\* whose size no other scanned file has
C5_Witness ==
  \E l \in Labels :
    /\ det[l].lookups # {}
    /\ \E f \in det[l].files :
         ~Collides(det[l].files, f.path) /\ f.path \notin det[l].lookups

\* a group has a member with a row of its hash under the label, in the
\* table as the run left it
HasMemberUnder(g, l) ==
  \E i \in 1..Len(g.files) :
    /\ store'[<<g.files[i], l>>].present
    /\ store'[<<g.files[i], l>>].file_hash = g.hash

\* C6: every group of run_stage3b has a member recorded under "input" and
\* one recorded under "output"
C6_CrossFolderGroupsSpanBothLabels ==
  [][(StageRan /\ res'.phase = "3b") =>
       \A g \in res'.duplicate_groups :
         HasMemberUnder(g, "input") /\ HasMemberUnder(g, "output")]_vars

\* run_stage3b has returned a group, and the detector had found a group
\* within the input tree whose hash is in none of the returned groups
C6_Witness ==
  /\ res.phase = "3b" /\ res.duplicate_groups # {}
  /\ \E g \in det["input"].groups :
       \A h \in res.duplicate_groups : h.hash # g.hash

\* the hashing counters left aside
WithoutHashCounters(st) ==
  [st EXCEPT !.detector.files_hashed = 0, !.detector.cache_hits = 0]

\* the last two runs were dry-run Phase A runs with no file changed between
TwoDryRunsOfPhaseA ==
  /\ prev.phase = "3a" /\ prev.dry_run /\ ~prev.changed
  /\ res.phase = "3a" /\ res.dry_run
  /\ res.input_folder = prev.input_folder

\* C13 as stated: the second of two dry-run Phase A runs with no file changed
\* between them has the statistics of the first, files hashed and cache hits
\* included
C13_Original ==
  TwoDryRunsOfPhaseA => PhaseStats(det, res) = prev.stats

\* C13 (amended): ... has the statistics of the first except for files hashed
\* and cache hits: the second run hashes nothing and its cache hits are the
\* first run's cache hits plus the first run's files hashed
C13_SecondDryRunSameStatsButHashCounters ==
  TwoDryRunsOfPhaseA =>
    /\ WithoutHashCounters(PhaseStats(det, res)) = WithoutHashCounters(prev.stats)
    /\ det["input"].stats.files_hashed = 0
    /\ det["input"].stats.cache_hits
         = prev.stats.detector.cache_hits + prev.stats.detector.files_hashed

\* two dry-run Phase A runs were made with no file changed between them, the
\* first hashed two files and found a duplicate group, the second hit the
\* cache twice
C13_Witness ==
  /\ TwoDryRunsOfPhaseA
  /\ prev.stats.detector.files_hashed = 2
  /\ det["input"].stats.cache_hits = 2
  /\ res.duplicate_groups # {}

\* the paths of the recorded failures of the last run
FailedPaths == {res.errors[i].path : i \in 1..Len(res.errors)}

\* C14: after an execute run every path of every delete list of the plan was
\* either deleted or recorded as a failure, files_deleted plus the number of
\* recorded failures is the number of planned deletions, and the deleted
\* files are gone
C14_EveryPlannedDeletionAttempted ==
  (res.phase # "none" /\ ~res.dry_run) =>
    LET todo == PlanDeletes(res.plan)
    IN  /\ \A i \in 1..Len(todo) : todo[i] \in res.deleted \cup FailedPaths
        /\ res.files_deleted = Cardinality(res.deleted)
        /\ res.files_deleted + Len(res.errors) = Len(todo)
        /\ ~changed => \A p \in res.deleted : ~disk[p].exists

\* an execute run had two planned deletions, the first failed and the second
\* was carried out
C14_Witness ==
  /\ res.phase # "none" /\ ~res.dry_run
  /\ Len(PlanDeletes(res.plan)) = 2
  /\ PlanDeletes(res.plan)[1] \in FailedPaths
  /\ PlanDeletes(res.plan)[2] \in res.deleted

(***************************************************************************)
(* Properties of the HashCache lookups and of the FileSampler              *)
(***************************************************************************)
\* the listed paths of the last lookup
Listed == Range(lookup.file_paths)

\* C15: get_files_by_paths returns, for a list of any length, a map whose
\* keys are exactly the listed paths having a row under the label, each
\* mapped to the record get_from_cache returns for it
C15_LookupReturnsListedRecords ==
  lookup.called =>
    /\ ~lookup.raised
    /\ DOMAIN lookup.result
         = {p \in Listed : GetFromCache(store, p, lookup.folder).present}
    /\ \A p \in DOMAIN lookup.result :
         lookup.result[p] = GetFromCache(store, p, lookup.folder)

\* C16: the default sampler gives, for a size at or above its threshold,
\* 10 MiB samples below 1 GiB, 20 MiB samples from 1 GiB and below 5 GiB,
\* 50 MiB samples from 5 GiB
C16_AdaptiveSampleSizes ==
  (sampled.called /\ sampler = DefaultSampler
     /\ sampled.file_size >= DEFAULT_THRESHOLD) =>
    sampled.sizes =
      IF sampled.file_size < GiB THEN <<10 * MiB, 10 * MiB>>
      ELSE IF sampled.file_size < 5 * GiB THEN <<20 * MiB, 20 * MiB>>
      ELSE <<50 * MiB, 50 * MiB>>

\* the default sampler was asked for a file of exactly 1 GiB
C16_Witness ==
  /\ sampled.called /\ sampler = DefaultSampler
  /\ sampled.file_size = GiB
  /\ sampled.sizes = <<20 * MiB, 20 * MiB>>

(***************************************************************************)
(* Properties of the hashing of large files, of the scan of a missing      *)
(* root, and of deletions over several runs                                *)
(***************************************************************************)
\* C17: a stored hash of a file below the sampling threshold is of kind
\* 'full' with no sample size; one of a file at or above the threshold is of
\* kind 'sampled', with the bytes of the head and tail samples
C17_HashKindFollowsThreshold ==
  \A k \in FsPaths \X Labels :
    (store[k].present /\ store[k].file_hash # NullHash) =>
      IF ShouldSample(DefaultSampler, store[k].file_size)
      THEN /\ store[k].hash_type = "sampled"
           /\ store[k].sample_size
                = GetSampleSizes(DefaultSampler, store[k].file_size)[1]
                  + GetSampleSizes(DefaultSampler, store[k].file_size)[2]
      ELSE /\ store[k].hash_type = "full"
           /\ store[k].sample_size = NoneSize

\* the root directories that the last run gave to a Detector scan
ScannedRoots ==
  CASE res.phase = "3a" -> {res.input_folder}
    [] res.phase = "3b" -> {OutputFolder}
    [] OTHER -> {}

\* C18: a run whose scan was given a root directory that cannot be listed
\* returns no result: it ends aborted
C18_UnlistableRootAborts ==
  (~changed /\ \E r \in ScannedRoots : ~Listable(disk, r)) => res.phase = "aborted"

\* the label of the tree a path lies in
LabelOf(p) == IF IsUnder(p, InputFolder) THEN "input" ELSE "output"

\* C19: whenever an execute run deletes a file, the keep of its group exists
\* before and after the deletion and holds the content of the deleted file
C19_KeepHoldsDeletedContent ==
  [][(StageRan /\ ~res'.dry_run) =>
       \A e \in res'.plan : \A i \in 1..Len(e.delete) :
         e.delete[i] \in res'.deleted =>
           /\ disk[e.keep].exists
           /\ disk'[e.keep].exists
           /\ disk[e.keep].content = disk[e.delete[i]].content]_vars

\* C20: every member of a cross-folder group of a Phase B run is a file
\* whose record, as the grouping read it, carries the size and mtime that
\* the file has on disk during the run
C20_GroupedRecordsMatchFiles ==
  [][(StageRan /\ res'.phase = "3b") =>
       \A g \in res'.duplicate_groups : \A i \in 1..Len(g.files) :
         LET p == g.files[i]
             rec == store'[<<p, LabelOf(p)>>]
         IN  /\ disk[p].exists
             /\ rec.file_size = SizeOf(disk[p].content)
             /\ rec.file_mtime = disk[p].mtime]_vars

\* the roots given to the run whose results res holds
RunRoots ==
  IF res.phase = "3b" THEN {res.input_folder, OutputFolder} ELSE {res.input_folder}

\* C21: every file an execute run deleted lies under the input root given
\* to that run, or for Phase B under its input root or its output root,
\* whatever rows earlier runs on other roots left in the store
C21_DeletedFilesUnderRunRoots ==
  (res.phase # "none" /\ ~res.dry_run) =>
    \A p \in res.deleted : \E r \in RunRoots : IsUnder(p, r)

\* the members of the group are at least two, with pairwise distinct paths
DistinctMembers(g) ==
  /\ Len(g.files) >= 2
  /\ \A i, j \in 1..Len(g.files) : i # j => g.files[i] # g.files[j]

\* the rows of the label that a group of detect_duplicates was built from
\* carry the group's size and hash
DetectorGroupUniform(st, g, l) ==
  \A i \in 1..Len(g.files) :
    /\ st[<<g.files[i], l>>].file_size = g.size
    /\ st[<<g.files[i], l>>].file_hash = g.hash

\* the rows that make up a group of _find_cross_folder_duplicates, those
\* with the group's hash, carry the group's size
CrossGroupUniform(st, g) ==
  \A k \in FsPaths \X Labels :
    (st[k].present /\ st[k].file_hash = g.hash) => st[k].file_size = g.size

\* C22: every group emitted by detect_duplicates or by
\* _find_cross_folder_duplicates has at least two members with pairwise
\* distinct paths, all of the group's size and hash
C22_GroupsHaveDistinctEqualMembers ==
  [][StageRan =>
       /\ \A l \in Labels : DetectorRan(l) =>
            \A g \in det'[l].groups :
              DistinctMembers(g) /\ DetectorGroupUniform(store', g, l)
       /\ res'.phase = "3b" =>
            \A g \in res'.duplicate_groups :
              DistinctMembers(g) /\ CrossGroupUniform(store', g)]_vars

\* two modification times, counted in milliseconds, are at most 0.001 s apart
WithinTolerance(a, b) == a - b \in -1..1

\* C23 as stated: a row with the file's size and a mtime at most 0.001 s
\* from the file's is treated as matching, the row is not reset and its
\* hash is reused; a row is reset only for another size or a mtime further
\* away
C23_Original ==
  [][\A l \in Labels : DetectorRan(l) =>
       \A f \in det'[l].files :
         LET cached == store[<<f.path, l>>]
             close == /\ cached.file_size = f.size
                      /\ WithinTolerance(cached.file_mtime, f.mtime)
         IN  cached.present =>
               /\ close =>
                    /\ f.path \notin det'[l].nulled
                    /\ cached.file_hash # NullHash => f.path \notin det'[l].computed
               /\ f.path \in det'[l].nulled => ~close]_vars

\* C23 (amended): a row is treated as matching only if it has the file's
\* size and exactly the file's mtime: then the row is not reset and its
\* hash, if it holds one, is reused; any other mtime, however close, or
\* another size is a change: the row is reset and its hash is not returned
C23_ExactMatchOnly ==
  [][\A l \in Labels : DetectorRan(l) =>
       \A f \in det'[l].files :
         LET cached == store[<<f.path, l>>]
             same == /\ cached.file_size = f.size
                     /\ cached.file_mtime = f.mtime
         IN  cached.present =>
               /\ same =>
                    /\ f.path \notin det'[l].nulled
                    /\ cached.file_hash # NullHash => f.path \notin det'[l].computed
               /\ ~same =>
                    /\ f.path \in det'[l].nulled
                    /\ f.path \notin det'[l].hits]_vars

\* the last detector run of a label found a row with the file's size and a
\* mtime one millisecond from the file's, and reset it
C23_Witness ==
  \E l \in Labels : \E f \in det[l].files : \E cached \in det[l].found :
    /\ cached.path = f.path
    /\ cached.file_size = f.size
    /\ cached.file_mtime # f.mtime
    /\ WithinTolerance(cached.file_mtime, f.mtime)
    /\ f.path \in det[l].nulled

\* the files whose hashing failed in the step's detect_duplicates call for
\* the label: looked up, not answered from the store, and not readable
FailedToHash(l) ==
  {p \in det'[l].lookups : p \notin det'[l].hits /\ ~disk[p].readable}

\* the row of the file as the metadata upsert of the step's call left it
RowAfterUpsert(l, f) ==
  IF f.path \in det'[l].nulled
  THEN SaveToCache(store, f.path, l, f.size, f.mtime, NullHash, "None")[<<f.path, l>>]
  ELSE store[<<f.path, l>>]

\* C24: a file that cannot be read when it is hashed is in no group of the
\* call and is counted in skipped_count, the hashing writes nothing to its
\* row, and every other file of a collision group is still looked up and,
\* if readable, gets its hash
C24_UnreadableFileSkipped ==
  [][\A l \in Labels : DetectorRan(l) =>
       /\ det'[l].skipped_count = Cardinality(FailedToHash(l))
       /\ \A f \in det'[l].files :
            /\ f.path \in FailedToHash(l) =>
                 /\ \A g \in det'[l].groups : f.path \notin Range(g.files)
                 /\ store'[<<f.path, l>>] = RowAfterUpsert(l, f)
                 /\ store'[<<f.path, l>>].file_hash = NullHash
            /\ Collides(det'[l].files, f.path) =>
                 /\ f.path \in det'[l].lookups
                 /\ disk[f.path].readable =>
                      \E h \in det'[l].hashed : h.path = f.path]_vars

\* the last detector run of a label skipped a file it could not read and
\* hashed another file of the same size
C24_Witness ==
  \E l \in Labels :
    /\ det[l].skipped_count >= 1
    /\ \E f \in det[l].files, h \in det[l].hashed :
         /\ f.path \in det[l].computed
         /\ h.path # f.path /\ h.size = f.size
         /\ store[<<f.path, l>>].file_hash = NullHash
         /\ \A x \in det[l].hashed : x.path # f.path

\* the keys of the rows of a table
Keys(st) == {k \in DOMAIN st : st[k].present}

\* C25: no step of a run removes a row: the set of keys never shrinks
\* except by clear_cache, and the rows of the files a run deleted are still
\* there after the run
C25_RunsNeverRemoveRows ==
  [][/\ (Keys(store) \subseteq Keys(store')) \/ (nRuns' = nRuns /\ Keys(store') = {})
     /\ StageRan =>
          /\ Keys(store) \subseteq Keys(store')
          /\ \A p \in res'.deleted : \E l \in Labels : <<p, l>> \in Keys(store')]_vars

\* an execute run has deleted a file, and the row of the file is in the
\* table
C25_Witness ==
  /\ res.phase # "none" /\ ~res.dry_run
  /\ \E p \in res.deleted :
       /\ ~disk[p].exists
       /\ \E l \in Labels : <<p, l>> \in Keys(store)

\* C26: whenever a run writes a hash into a row, the hash is that of the
\* content the file has during the run, and the size and mtime of the row
\* are those the file has during the run: a hash is never stored with a
\* size or mtime read at another time than the hashed content
C26_HashStoredWithItsMetadata ==
  [][StageRan =>
       \A k \in FsPaths \X Labels :
         (store'[k].file_hash # NullHash /\ store'[k] # store[k]) =>
           /\ disk[k[1]].exists
           /\ store'[k].file_hash = HashOf(disk[k[1]].content)
           /\ store'[k].file_size = SizeOf(disk[k[1]].content)
           /\ store'[k].file_mtime = disk[k[1]].mtime]_vars

\* the last two runs were Phase A runs on the same input folder with
\* nothing changed between them, the first an execute run whose planned
\* deletions all succeeded
PhaseAAfterCleanExecute ==
  /\ prev.phase = "3a" /\ ~prev.dry_run /\ prev.errors = 0 /\ ~prev.changed
  /\ res.phase = "3a" /\ res.input_folder = prev.input_folder

\* C27: a Phase A run that follows a Phase A execute run in which every
\* planned deletion succeeded, on the tree as that run left it and the same
\* store, finds no duplicate group and deletes nothing
C27_SecondPhaseAFindsNothing ==
  PhaseAAfterCleanExecute =>
    /\ det["input"].groups = {}
    /\ res.duplicate_groups = {}
    /\ res.total_duplicates = 0
    /\ res.plan = {}
    /\ res.deleted = {} /\ res.files_deleted = 0

\* a Phase A execute run deleted duplicates without a failure and was
\* followed by a Phase A run that collected files of the same tree
C27_Witness ==
  /\ PhaseAAfterCleanExecute
  /\ prev.files_deleted >= 1
  /\ det["input"].files # {}

\* the number of bytes of a byte range <<first, end>>
BytesIn(r) == IF r[2] > r[1] THEN r[2] - r[1] ELSE 0
\* two byte ranges hold the same bytes of the file
SameBytes(r, q) == (BytesIn(r) = 0 /\ BytesIn(q) = 0) \/ r = q
\* two byte ranges have a byte in common
Overlap(r, q) == BytesIn(r) > 0 /\ BytesIn(q) > 0 /\ r[1] < q[2] /\ q[1] < r[2]
\* read_samples was called on a readable file of a size at or above the
\* threshold
SampledReadable ==
  sampled.read /\ sampled.readable /\ sampled.file_size >= sampler.threshold

\* C28 as stated: for a readable file at or above the threshold the head is
\* the bytes [0, head_bytes) and the tail the bytes
\* [max(head_bytes, size - tail_bytes), size); they do not overlap and hold
\* at most size bytes together
C28_Original ==
  SampledReadable =>
    LET size == sampled.file_size
        head_bytes == sampled.sizes[1]
        tail_bytes == sampled.sizes[2]
    IN  /\ sampled.samples.returned
        /\ sampled.samples.head = <<0, head_bytes>>
        /\ SameBytes(sampled.samples.tail,
                     <<Max({head_bytes, size - tail_bytes}), size>>)
        /\ ~Overlap(sampled.samples.head, sampled.samples.tail)
        /\ BytesIn(sampled.samples.head) + BytesIn(sampled.samples.tail) <= size

\* C28 (amended): ... the head is the bytes [0, min(head_bytes, size)) ...
C28_SamplesWithinFile ==
  SampledReadable =>
    LET size == sampled.file_size
        head_bytes == sampled.sizes[1]
        tail_bytes == sampled.sizes[2]
    IN  /\ sampled.samples.returned
        /\ sampled.samples.head = <<0, Min({head_bytes, size})>>
        /\ SameBytes(sampled.samples.tail,
                     <<Max({head_bytes, size - tail_bytes}), size>>)
        /\ ~Overlap(sampled.samples.head, sampled.samples.tail)
        /\ BytesIn(sampled.samples.head) + BytesIn(sampled.samples.tail) <= size

\* a readable file at or above the threshold and shorter than the head and
\* tail sizes together was read: the tail starts where the head ends
C28_Witness ==
  /\ SampledReadable
  /\ sampled.file_size > sampled.sizes[1]
  /\ sampled.file_size < sampled.sizes[1] + sampled.sizes[2]
  /\ sampled.samples.tail = <<sampled.sizes[1], sampled.file_size>>

\* C29: in execute mode a file leaves the input tree only by being moved
\* to its destination in the output tree, and a file whose destination
\* existed, so that its move was skipped, is in the input tree after the
\* run, cleanup included
C29_RemovedOnlyIfMoved ==
  [][(s4'.ran /\ ~s4'.dry_run) =>
       \A p \in Stage4Inputs :
         /\ (tree[p].exists /\ ~tree'[p].exists) =>
              /\ ~tree[DestPath(tree, p)].exists
              /\ tree'[DestPath(tree, p)] = tree[p]
         /\ (tree[p].exists /\ tree[DestPath(tree, p)].exists) =>
              tree'[p] = tree[p]]_vars

\* C30: no statement that get_files_by_paths executes binds more than 999
\* parameters, the folder counted with the paths of the batch
C30_StatementsWithinNamedLimit ==
  lookup.called => \A n \in lookup.statements : n <= NamedParameterLimit

====
